---- MODULE Spec2Model ----
(***************************************************************************)
(* EVM instruction tables (core/vm jump table): the nine fork tables built *)
(* at package initialisation, the table validator, and the dispatch        *)
(* contract the interpreter applies to a table record at every step.       *)
(* Contract bindings (accounts/abi/bind/v2): LinkAndDeploy, EventIterator  *)
(* and WatchEvents, and the float counter of the binding tests.            *)
(* The era-file BufferedSnapWriter (core/rawdb), the overrideState wrapper *)
(* (core/state), and the legacy record layout of the jump table.           *)
(***************************************************************************)
EXTENDS Integers, Sequences, FiniteSets, TLC

VARIABLES
  heap,      \* allocated operation records; a *operation is an index into heap, 0 is nil
  pkg,       \* the package-level tables built so far: fork name -> JumpTable
  initIdx,   \* position in the package variable block: the next table to initialise
  panicked,  \* package initialisation ended in a panic
  fork,      \* the table selected by the running frame
  code,      \* the frame's code
  pc,        \* the frame's program counter
  stack,     \* the frame's stack, top last
  gas,       \* the frame's available gas
  memLen,    \* the frame's memory length in bytes
  status,    \* "idle", "running", "stopped", "returned" or the error that ended the frame
  lastOp,    \* the opcode byte of the latest dispatch step, -1 before the first
  prevGas,   \* the available gas before the latest dispatch step
  vHeap,     \* records of the table handed to validate on its own
  vIn,       \* the table handed to validate on its own
  vOut       \* what that call of validate produced

VARIABLES
  gRem,      \* a CALL step's frame gas remaining after the base cost
  gReq,      \* the gas that CALL step requests for the sub-call
  gFwd,      \* the gas that CALL step forwards to the sub-call
  callPhase  \* "idle", or "forwarded" while the sub-call holds the gas

VARIABLES
  dParams,   \* the DeploymentParams of the latest LinkAndDeploy call
  dRes,      \* the *DeploymentResult that call returned
  dErr,      \* the error that call returned
  dCalls,    \* the invocations of the deploy callback that call made, in order
  dPhase     \* "idle", or "returned" while the caller holds the result

VARIABLES
  logs,      \* the log channel of a filter or watch subscription, oldest first
  sub,       \* that subscription: the error waiting on its Err() channel,
             \* whether the channel is closed, whether it was unsubscribed, and
             \* the logs it has produced
  iter,      \* the EventIterator: event, done, fail
  itObs,     \* what the iterator's user saw: the values Next returned, Value()
             \* after each true, the errors met, the number of logs received
  watch,     \* the WatchEvents loop: position, event being sent, returned
             \* error, and the logs it has received
  sink,      \* the events the sink channel has carried
  quit       \* the quit channel of the subscription WatchEvents returned is closed

VARIABLES
  snap,      \* a BufferedSnapWriter, the latest block its io.Writer received,
             \* and what its user did: the bytes passed to Write since the
             \* latest WriteTo, the bytes that WriteTo flushed, the latest call
  ovr,       \* an overrideState: its override map, the inner state database
             \* with its journal, and what its user observed
  ctr        \* a CounterFloat64 and the goroutines calling Inc and Dec on it

auxVars == <<gRem, gReq, gFwd, callPhase, dParams, dRes, dErr, dCalls, dPhase,
             logs, sub, iter, itObs, watch, sink, quit, snap, ovr, ctr>>

vars == <<heap, pkg, initIdx, panicked, fork, code, pc, stack, gas, memLen,
          status, lastOp, prevGas, vHeap, vIn, vOut, auxVars>>

tableVars == <<heap, pkg, initIdx, panicked>>
frameVars == <<fork, code, pc, stack, gas, memLen, status, lastOp, prevGas>>
validateVars == <<vHeap, vIn, vOut>>

----------------------------------------------------------------------------
(* Opcode bytes, gas constants, stack-threshold helpers.                    *)

nil == "nil"

StackLimit == 1024

OpCode ==
  [STOP |-> 0, ADD |-> 1, MUL |-> 2, SUB |-> 3, DIV |-> 4, SDIV |-> 5, MOD |-> 6,
   SMOD |-> 7, ADDMOD |-> 8, MULMOD |-> 9, EXP |-> 10, SIGNEXTEND |-> 11,
   LT |-> 16, GT |-> 17, SLT |-> 18, SGT |-> 19, EQ |-> 20, ISZERO |-> 21,
   AND |-> 22, OR |-> 23, XOR |-> 24, NOT |-> 25, BYTE |-> 26, SHL |-> 27,
   SHR |-> 28, SAR |-> 29, KECCAK256 |-> 32,
   ADDRESS |-> 48, BALANCE |-> 49, ORIGIN |-> 50, CALLER |-> 51, CALLVALUE |-> 52,
   CALLDATALOAD |-> 53, CALLDATASIZE |-> 54, CALLDATACOPY |-> 55, CODESIZE |-> 56,
   CODECOPY |-> 57, GASPRICE |-> 58, EXTCODESIZE |-> 59, EXTCODECOPY |-> 60,
   RETURNDATASIZE |-> 61, RETURNDATACOPY |-> 62, EXTCODEHASH |-> 63,
   BLOCKHASH |-> 64, COINBASE |-> 65, TIMESTAMP |-> 66, NUMBER |-> 67,
   DIFFICULTY |-> 68, GASLIMIT |-> 69, CHAINID |-> 70, SELFBALANCE |-> 71,
   BASEFEE |-> 72,
   POP |-> 80, MLOAD |-> 81, MSTORE |-> 82, MSTORE8 |-> 83, SLOAD |-> 84,
   SSTORE |-> 85, JUMP |-> 86, JUMPI |-> 87, PC |-> 88, MSIZE |-> 89, GAS |-> 90,
   JUMPDEST |-> 91,
   PUSH1 |-> 96, PUSH2 |-> 97, PUSH3 |-> 98, PUSH4 |-> 99, PUSH5 |-> 100,
   PUSH6 |-> 101, PUSH7 |-> 102, PUSH8 |-> 103, PUSH9 |-> 104, PUSH10 |-> 105,
   PUSH11 |-> 106, PUSH12 |-> 107, PUSH13 |-> 108, PUSH14 |-> 109, PUSH15 |-> 110,
   PUSH16 |-> 111, PUSH17 |-> 112, PUSH18 |-> 113, PUSH19 |-> 114, PUSH20 |-> 115,
   PUSH21 |-> 116, PUSH22 |-> 117, PUSH23 |-> 118, PUSH24 |-> 119, PUSH25 |-> 120,
   PUSH26 |-> 121, PUSH27 |-> 122, PUSH28 |-> 123, PUSH29 |-> 124, PUSH30 |-> 125,
   PUSH31 |-> 126, PUSH32 |-> 127,
   DUP1 |-> 128, DUP2 |-> 129, DUP3 |-> 130, DUP4 |-> 131, DUP5 |-> 132,
   DUP6 |-> 133, DUP7 |-> 134, DUP8 |-> 135, DUP9 |-> 136, DUP10 |-> 137,
   DUP11 |-> 138, DUP12 |-> 139, DUP13 |-> 140, DUP14 |-> 141, DUP15 |-> 142,
   DUP16 |-> 143,
   SWAP1 |-> 144, SWAP2 |-> 145, SWAP3 |-> 146, SWAP4 |-> 147, SWAP5 |-> 148,
   SWAP6 |-> 149, SWAP7 |-> 150, SWAP8 |-> 151, SWAP9 |-> 152, SWAP10 |-> 153,
   SWAP11 |-> 154, SWAP12 |-> 155, SWAP13 |-> 156, SWAP14 |-> 157, SWAP15 |-> 158,
   SWAP16 |-> 159,
   LOG0 |-> 160, LOG1 |-> 161, LOG2 |-> 162, LOG3 |-> 163, LOG4 |-> 164,
   CREATE |-> 240, CALL |-> 241, CALLCODE |-> 242, RETURN |-> 243,
   DELEGATECALL |-> 244, CREATE2 |-> 245, STATICCALL |-> 250, REVERT |-> 253,
   SELFDESTRUCT |-> 255]

GasQuickStep == 2
GasFastestStep == 3
GasFastStep == 5
GasMidStep == 8
GasSlowStep == 10
GasExtStep == 20

params ==
  [Keccak256Gas |-> 30, JumpdestGas |-> 1, CreateGas |-> 32000, Create2Gas |-> 32000,
   BalanceGasFrontier |-> 20, ExtcodeSizeGasFrontier |-> 20,
   ExtcodeCopyBaseFrontier |-> 20, SloadGasFrontier |-> 50, CallGasFrontier |-> 40,
   BalanceGasEIP150 |-> 400, ExtcodeSizeGasEIP150 |-> 700, SloadGasEIP150 |-> 200,
   ExtcodeCopyBaseEIP150 |-> 700, CallGasEIP150 |-> 700,
   ExtcodeHashGasConstantinople |-> 400,
   BalanceGasEIP1884 |-> 700, SloadGasEIP1884 |-> 800, ExtcodeHashGasEIP1884 |-> 700,
   SloadGasEIP2200 |-> 800,
   WarmStorageReadCostEIP2929 |-> 100, SelfdestructGasEIP150 |-> 5000]

minStack(pops, push) == pops
maxStack(pop, push) == StackLimit + pop - push
minDupStack(n) == minStack(n, n + 1)
maxDupStack(n) == maxStack(n, n + 1)
minSwapStack(n) == minStack(n, n)
maxSwapStack(n) == maxStack(n, n)

----------------------------------------------------------------------------
(* newFrontierInstructionSet: the table literal.                            *)

\* one record per entry of the literal; op names the opcode constant that keys it
FrontierLiteral ==
  << [op |-> "STOP", execute |-> "opStop", constantGas |-> 0, dynamicGas |-> nil, minStack |-> minStack(0, 0), maxStack |-> maxStack(0, 0), memorySize |-> nil],
     [op |-> "ADD", execute |-> "opAdd", constantGas |-> GasFastestStep, dynamicGas |-> nil, minStack |-> minStack(2, 1), maxStack |-> maxStack(2, 1), memorySize |-> nil],
     [op |-> "MUL", execute |-> "opMul", constantGas |-> GasFastStep, dynamicGas |-> nil, minStack |-> minStack(2, 1), maxStack |-> maxStack(2, 1), memorySize |-> nil],
     [op |-> "SUB", execute |-> "opSub", constantGas |-> GasFastestStep, dynamicGas |-> nil, minStack |-> minStack(2, 1), maxStack |-> maxStack(2, 1), memorySize |-> nil],
     [op |-> "DIV", execute |-> "opDiv", constantGas |-> GasFastStep, dynamicGas |-> nil, minStack |-> minStack(2, 1), maxStack |-> maxStack(2, 1), memorySize |-> nil],
     [op |-> "SDIV", execute |-> "opSdiv", constantGas |-> GasFastStep, dynamicGas |-> nil, minStack |-> minStack(2, 1), maxStack |-> maxStack(2, 1), memorySize |-> nil],
     [op |-> "MOD", execute |-> "opMod", constantGas |-> GasFastStep, dynamicGas |-> nil, minStack |-> minStack(2, 1), maxStack |-> maxStack(2, 1), memorySize |-> nil],
     [op |-> "SMOD", execute |-> "opSmod", constantGas |-> GasFastStep, dynamicGas |-> nil, minStack |-> minStack(2, 1), maxStack |-> maxStack(2, 1), memorySize |-> nil],
     [op |-> "ADDMOD", execute |-> "opAddmod", constantGas |-> GasMidStep, dynamicGas |-> nil, minStack |-> minStack(3, 1), maxStack |-> maxStack(3, 1), memorySize |-> nil],
     [op |-> "MULMOD", execute |-> "opMulmod", constantGas |-> GasMidStep, dynamicGas |-> nil, minStack |-> minStack(3, 1), maxStack |-> maxStack(3, 1), memorySize |-> nil],
     [op |-> "EXP", execute |-> "opExp", constantGas |-> 0, dynamicGas |-> "gasExpFrontier", minStack |-> minStack(2, 1), maxStack |-> maxStack(2, 1), memorySize |-> nil],
     [op |-> "SIGNEXTEND", execute |-> "opSignExtend", constantGas |-> GasFastStep, dynamicGas |-> nil, minStack |-> minStack(2, 1), maxStack |-> maxStack(2, 1), memorySize |-> nil],
     [op |-> "LT", execute |-> "opLt", constantGas |-> GasFastestStep, dynamicGas |-> nil, minStack |-> minStack(2, 1), maxStack |-> maxStack(2, 1), memorySize |-> nil],
     [op |-> "GT", execute |-> "opGt", constantGas |-> GasFastestStep, dynamicGas |-> nil, minStack |-> minStack(2, 1), maxStack |-> maxStack(2, 1), memorySize |-> nil],
     [op |-> "SLT", execute |-> "opSlt", constantGas |-> GasFastestStep, dynamicGas |-> nil, minStack |-> minStack(2, 1), maxStack |-> maxStack(2, 1), memorySize |-> nil],
     [op |-> "SGT", execute |-> "opSgt", constantGas |-> GasFastestStep, dynamicGas |-> nil, minStack |-> minStack(2, 1), maxStack |-> maxStack(2, 1), memorySize |-> nil],
     [op |-> "EQ", execute |-> "opEq", constantGas |-> GasFastestStep, dynamicGas |-> nil, minStack |-> minStack(2, 1), maxStack |-> maxStack(2, 1), memorySize |-> nil],
     [op |-> "ISZERO", execute |-> "opIszero", constantGas |-> GasFastestStep, dynamicGas |-> nil, minStack |-> minStack(1, 1), maxStack |-> maxStack(1, 1), memorySize |-> nil],
     [op |-> "AND", execute |-> "opAnd", constantGas |-> GasFastestStep, dynamicGas |-> nil, minStack |-> minStack(2, 1), maxStack |-> maxStack(2, 1), memorySize |-> nil],
     [op |-> "XOR", execute |-> "opXor", constantGas |-> GasFastestStep, dynamicGas |-> nil, minStack |-> minStack(2, 1), maxStack |-> maxStack(2, 1), memorySize |-> nil],
     [op |-> "OR", execute |-> "opOr", constantGas |-> GasFastestStep, dynamicGas |-> nil, minStack |-> minStack(2, 1), maxStack |-> maxStack(2, 1), memorySize |-> nil],
     [op |-> "NOT", execute |-> "opNot", constantGas |-> GasFastestStep, dynamicGas |-> nil, minStack |-> minStack(1, 1), maxStack |-> maxStack(1, 1), memorySize |-> nil],
     [op |-> "BYTE", execute |-> "opByte", constantGas |-> GasFastestStep, dynamicGas |-> nil, minStack |-> minStack(2, 1), maxStack |-> maxStack(2, 1), memorySize |-> nil],
     [op |-> "KECCAK256", execute |-> "opKeccak256", constantGas |-> params.Keccak256Gas, dynamicGas |-> "gasKeccak256", minStack |-> minStack(2, 1), maxStack |-> maxStack(2, 1), memorySize |-> "memoryKeccak256"],
     [op |-> "ADDRESS", execute |-> "opAddress", constantGas |-> GasQuickStep, dynamicGas |-> nil, minStack |-> minStack(0, 1), maxStack |-> maxStack(0, 1), memorySize |-> nil],
     [op |-> "BALANCE", execute |-> "opBalance", constantGas |-> params.BalanceGasFrontier, dynamicGas |-> nil, minStack |-> minStack(1, 1), maxStack |-> maxStack(1, 1), memorySize |-> nil],
     [op |-> "ORIGIN", execute |-> "opOrigin", constantGas |-> GasQuickStep, dynamicGas |-> nil, minStack |-> minStack(0, 1), maxStack |-> maxStack(0, 1), memorySize |-> nil],
     [op |-> "CALLER", execute |-> "opCaller", constantGas |-> GasQuickStep, dynamicGas |-> nil, minStack |-> minStack(0, 1), maxStack |-> maxStack(0, 1), memorySize |-> nil],
     [op |-> "CALLVALUE", execute |-> "opCallValue", constantGas |-> GasQuickStep, dynamicGas |-> nil, minStack |-> minStack(0, 1), maxStack |-> maxStack(0, 1), memorySize |-> nil],
     [op |-> "CALLDATALOAD", execute |-> "opCallDataLoad", constantGas |-> GasFastestStep, dynamicGas |-> nil, minStack |-> minStack(1, 1), maxStack |-> maxStack(1, 1), memorySize |-> nil],
     [op |-> "CALLDATASIZE", execute |-> "opCallDataSize", constantGas |-> GasQuickStep, dynamicGas |-> nil, minStack |-> minStack(0, 1), maxStack |-> maxStack(0, 1), memorySize |-> nil],
     [op |-> "CALLDATACOPY", execute |-> "opCallDataCopy", constantGas |-> GasFastestStep, dynamicGas |-> "gasCallDataCopy", minStack |-> minStack(3, 0), maxStack |-> maxStack(3, 0), memorySize |-> "memoryCallDataCopy"],
     [op |-> "CODESIZE", execute |-> "opCodeSize", constantGas |-> GasQuickStep, dynamicGas |-> nil, minStack |-> minStack(0, 1), maxStack |-> maxStack(0, 1), memorySize |-> nil],
     [op |-> "CODECOPY", execute |-> "opCodeCopy", constantGas |-> GasFastestStep, dynamicGas |-> "gasCodeCopy", minStack |-> minStack(3, 0), maxStack |-> maxStack(3, 0), memorySize |-> "memoryCodeCopy"],
     [op |-> "GASPRICE", execute |-> "opGasprice", constantGas |-> GasQuickStep, dynamicGas |-> nil, minStack |-> minStack(0, 1), maxStack |-> maxStack(0, 1), memorySize |-> nil],
     [op |-> "EXTCODESIZE", execute |-> "opExtCodeSize", constantGas |-> params.ExtcodeSizeGasFrontier, dynamicGas |-> nil, minStack |-> minStack(1, 1), maxStack |-> maxStack(1, 1), memorySize |-> nil],
     [op |-> "EXTCODECOPY", execute |-> "opExtCodeCopy", constantGas |-> params.ExtcodeCopyBaseFrontier, dynamicGas |-> "gasExtCodeCopy", minStack |-> minStack(4, 0), maxStack |-> maxStack(4, 0), memorySize |-> "memoryExtCodeCopy"],
     [op |-> "BLOCKHASH", execute |-> "opBlockhash", constantGas |-> GasExtStep, dynamicGas |-> nil, minStack |-> minStack(1, 1), maxStack |-> maxStack(1, 1), memorySize |-> nil],
     [op |-> "COINBASE", execute |-> "opCoinbase", constantGas |-> GasQuickStep, dynamicGas |-> nil, minStack |-> minStack(0, 1), maxStack |-> maxStack(0, 1), memorySize |-> nil],
     [op |-> "TIMESTAMP", execute |-> "opTimestamp", constantGas |-> GasQuickStep, dynamicGas |-> nil, minStack |-> minStack(0, 1), maxStack |-> maxStack(0, 1), memorySize |-> nil],
     [op |-> "NUMBER", execute |-> "opNumber", constantGas |-> GasQuickStep, dynamicGas |-> nil, minStack |-> minStack(0, 1), maxStack |-> maxStack(0, 1), memorySize |-> nil],
     [op |-> "DIFFICULTY", execute |-> "opDifficulty", constantGas |-> GasQuickStep, dynamicGas |-> nil, minStack |-> minStack(0, 1), maxStack |-> maxStack(0, 1), memorySize |-> nil],
     [op |-> "GASLIMIT", execute |-> "opGasLimit", constantGas |-> GasQuickStep, dynamicGas |-> nil, minStack |-> minStack(0, 1), maxStack |-> maxStack(0, 1), memorySize |-> nil],
     [op |-> "POP", execute |-> "opPop", constantGas |-> GasQuickStep, dynamicGas |-> nil, minStack |-> minStack(1, 0), maxStack |-> maxStack(1, 0), memorySize |-> nil],
     [op |-> "MLOAD", execute |-> "opMload", constantGas |-> GasFastestStep, dynamicGas |-> "gasMLoad", minStack |-> minStack(1, 1), maxStack |-> maxStack(1, 1), memorySize |-> "memoryMLoad"],
     [op |-> "MSTORE", execute |-> "opMstore", constantGas |-> GasFastestStep, dynamicGas |-> "gasMStore", minStack |-> minStack(2, 0), maxStack |-> maxStack(2, 0), memorySize |-> "memoryMStore"],
     [op |-> "MSTORE8", execute |-> "opMstore8", constantGas |-> GasFastestStep, dynamicGas |-> "gasMStore8", minStack |-> minStack(2, 0), maxStack |-> maxStack(2, 0), memorySize |-> "memoryMStore8"],
     [op |-> "SLOAD", execute |-> "opSload", constantGas |-> params.SloadGasFrontier, dynamicGas |-> nil, minStack |-> minStack(1, 1), maxStack |-> maxStack(1, 1), memorySize |-> nil],
     [op |-> "SSTORE", execute |-> "opSstore", constantGas |-> 0, dynamicGas |-> "gasSStore", minStack |-> minStack(2, 0), maxStack |-> maxStack(2, 0), memorySize |-> nil],
     [op |-> "JUMP", execute |-> "opJump", constantGas |-> GasMidStep, dynamicGas |-> nil, minStack |-> minStack(1, 0), maxStack |-> maxStack(1, 0), memorySize |-> nil],
     [op |-> "JUMPI", execute |-> "opJumpi", constantGas |-> GasSlowStep, dynamicGas |-> nil, minStack |-> minStack(2, 0), maxStack |-> maxStack(2, 0), memorySize |-> nil],
     [op |-> "PC", execute |-> "opPc", constantGas |-> GasQuickStep, dynamicGas |-> nil, minStack |-> minStack(0, 1), maxStack |-> maxStack(0, 1), memorySize |-> nil],
     [op |-> "MSIZE", execute |-> "opMsize", constantGas |-> GasQuickStep, dynamicGas |-> nil, minStack |-> minStack(0, 1), maxStack |-> maxStack(0, 1), memorySize |-> nil],
     [op |-> "GAS", execute |-> "opGas", constantGas |-> GasQuickStep, dynamicGas |-> nil, minStack |-> minStack(0, 1), maxStack |-> maxStack(0, 1), memorySize |-> nil],
     [op |-> "JUMPDEST", execute |-> "opJumpdest", constantGas |-> params.JumpdestGas, dynamicGas |-> nil, minStack |-> minStack(0, 0), maxStack |-> maxStack(0, 0), memorySize |-> nil],
     [op |-> "PUSH1", execute |-> "opPush1", constantGas |-> GasFastestStep, dynamicGas |-> nil, minStack |-> minStack(0, 1), maxStack |-> maxStack(0, 1), memorySize |-> nil],
     [op |-> "PUSH2", execute |-> "opPush2", constantGas |-> GasFastestStep, dynamicGas |-> nil, minStack |-> minStack(0, 1), maxStack |-> maxStack(0, 1), memorySize |-> nil],
     [op |-> "PUSH3", execute |-> "opPush3", constantGas |-> GasFastestStep, dynamicGas |-> nil, minStack |-> minStack(0, 1), maxStack |-> maxStack(0, 1), memorySize |-> nil],
     [op |-> "PUSH4", execute |-> "opPush4", constantGas |-> GasFastestStep, dynamicGas |-> nil, minStack |-> minStack(0, 1), maxStack |-> maxStack(0, 1), memorySize |-> nil],
     [op |-> "PUSH5", execute |-> "opPush5", constantGas |-> GasFastestStep, dynamicGas |-> nil, minStack |-> minStack(0, 1), maxStack |-> maxStack(0, 1), memorySize |-> nil],
     [op |-> "PUSH6", execute |-> "opPush6", constantGas |-> GasFastestStep, dynamicGas |-> nil, minStack |-> minStack(0, 1), maxStack |-> maxStack(0, 1), memorySize |-> nil],
     [op |-> "PUSH7", execute |-> "opPush7", constantGas |-> GasFastestStep, dynamicGas |-> nil, minStack |-> minStack(0, 1), maxStack |-> maxStack(0, 1), memorySize |-> nil],
     [op |-> "PUSH8", execute |-> "opPush8", constantGas |-> GasFastestStep, dynamicGas |-> nil, minStack |-> minStack(0, 1), maxStack |-> maxStack(0, 1), memorySize |-> nil],
     [op |-> "PUSH9", execute |-> "opPush9", constantGas |-> GasFastestStep, dynamicGas |-> nil, minStack |-> minStack(0, 1), maxStack |-> maxStack(0, 1), memorySize |-> nil],
     [op |-> "PUSH10", execute |-> "opPush10", constantGas |-> GasFastestStep, dynamicGas |-> nil, minStack |-> minStack(0, 1), maxStack |-> maxStack(0, 1), memorySize |-> nil],
     [op |-> "PUSH11", execute |-> "opPush11", constantGas |-> GasFastestStep, dynamicGas |-> nil, minStack |-> minStack(0, 1), maxStack |-> maxStack(0, 1), memorySize |-> nil],
     [op |-> "PUSH12", execute |-> "opPush12", constantGas |-> GasFastestStep, dynamicGas |-> nil, minStack |-> minStack(0, 1), maxStack |-> maxStack(0, 1), memorySize |-> nil],
     [op |-> "PUSH13", execute |-> "opPush13", constantGas |-> GasFastestStep, dynamicGas |-> nil, minStack |-> minStack(0, 1), maxStack |-> maxStack(0, 1), memorySize |-> nil],
     [op |-> "PUSH14", execute |-> "opPush14", constantGas |-> GasFastestStep, dynamicGas |-> nil, minStack |-> minStack(0, 1), maxStack |-> maxStack(0, 1), memorySize |-> nil],
     [op |-> "PUSH15", execute |-> "opPush15", constantGas |-> GasFastestStep, dynamicGas |-> nil, minStack |-> minStack(0, 1), maxStack |-> maxStack(0, 1), memorySize |-> nil],
     [op |-> "PUSH16", execute |-> "opPush16", constantGas |-> GasFastestStep, dynamicGas |-> nil, minStack |-> minStack(0, 1), maxStack |-> maxStack(0, 1), memorySize |-> nil],
     [op |-> "PUSH17", execute |-> "opPush17", constantGas |-> GasFastestStep, dynamicGas |-> nil, minStack |-> minStack(0, 1), maxStack |-> maxStack(0, 1), memorySize |-> nil],
     [op |-> "PUSH18", execute |-> "opPush18", constantGas |-> GasFastestStep, dynamicGas |-> nil, minStack |-> minStack(0, 1), maxStack |-> maxStack(0, 1), memorySize |-> nil],
     [op |-> "PUSH19", execute |-> "opPush19", constantGas |-> GasFastestStep, dynamicGas |-> nil, minStack |-> minStack(0, 1), maxStack |-> maxStack(0, 1), memorySize |-> nil],
     [op |-> "PUSH20", execute |-> "opPush20", constantGas |-> GasFastestStep, dynamicGas |-> nil, minStack |-> minStack(0, 1), maxStack |-> maxStack(0, 1), memorySize |-> nil],
     [op |-> "PUSH21", execute |-> "opPush21", constantGas |-> GasFastestStep, dynamicGas |-> nil, minStack |-> minStack(0, 1), maxStack |-> maxStack(0, 1), memorySize |-> nil],
     [op |-> "PUSH22", execute |-> "opPush22", constantGas |-> GasFastestStep, dynamicGas |-> nil, minStack |-> minStack(0, 1), maxStack |-> maxStack(0, 1), memorySize |-> nil],
     [op |-> "PUSH23", execute |-> "opPush23", constantGas |-> GasFastestStep, dynamicGas |-> nil, minStack |-> minStack(0, 1), maxStack |-> maxStack(0, 1), memorySize |-> nil],
     [op |-> "PUSH24", execute |-> "opPush24", constantGas |-> GasFastestStep, dynamicGas |-> nil, minStack |-> minStack(0, 1), maxStack |-> maxStack(0, 1), memorySize |-> nil],
     [op |-> "PUSH25", execute |-> "opPush25", constantGas |-> GasFastestStep, dynamicGas |-> nil, minStack |-> minStack(0, 1), maxStack |-> maxStack(0, 1), memorySize |-> nil],
     [op |-> "PUSH26", execute |-> "opPush26", constantGas |-> GasFastestStep, dynamicGas |-> nil, minStack |-> minStack(0, 1), maxStack |-> maxStack(0, 1), memorySize |-> nil],
     [op |-> "PUSH27", execute |-> "opPush27", constantGas |-> GasFastestStep, dynamicGas |-> nil, minStack |-> minStack(0, 1), maxStack |-> maxStack(0, 1), memorySize |-> nil],
     [op |-> "PUSH28", execute |-> "opPush28", constantGas |-> GasFastestStep, dynamicGas |-> nil, minStack |-> minStack(0, 1), maxStack |-> maxStack(0, 1), memorySize |-> nil],
     [op |-> "PUSH29", execute |-> "opPush29", constantGas |-> GasFastestStep, dynamicGas |-> nil, minStack |-> minStack(0, 1), maxStack |-> maxStack(0, 1), memorySize |-> nil],
     [op |-> "PUSH30", execute |-> "opPush30", constantGas |-> GasFastestStep, dynamicGas |-> nil, minStack |-> minStack(0, 1), maxStack |-> maxStack(0, 1), memorySize |-> nil],
     [op |-> "PUSH31", execute |-> "opPush31", constantGas |-> GasFastestStep, dynamicGas |-> nil, minStack |-> minStack(0, 1), maxStack |-> maxStack(0, 1), memorySize |-> nil],
     [op |-> "PUSH32", execute |-> "opPush32", constantGas |-> GasFastestStep, dynamicGas |-> nil, minStack |-> minStack(0, 1), maxStack |-> maxStack(0, 1), memorySize |-> nil],
     [op |-> "DUP1", execute |-> "opDup1", constantGas |-> GasFastestStep, dynamicGas |-> nil, minStack |-> minDupStack(1), maxStack |-> maxDupStack(1), memorySize |-> nil],
     [op |-> "DUP2", execute |-> "opDup2", constantGas |-> GasFastestStep, dynamicGas |-> nil, minStack |-> minDupStack(2), maxStack |-> maxDupStack(2), memorySize |-> nil],
     [op |-> "DUP3", execute |-> "opDup3", constantGas |-> GasFastestStep, dynamicGas |-> nil, minStack |-> minDupStack(3), maxStack |-> maxDupStack(3), memorySize |-> nil],
     [op |-> "DUP4", execute |-> "opDup4", constantGas |-> GasFastestStep, dynamicGas |-> nil, minStack |-> minDupStack(4), maxStack |-> maxDupStack(4), memorySize |-> nil],
     [op |-> "DUP5", execute |-> "opDup5", constantGas |-> GasFastestStep, dynamicGas |-> nil, minStack |-> minDupStack(5), maxStack |-> maxDupStack(5), memorySize |-> nil],
     [op |-> "DUP6", execute |-> "opDup6", constantGas |-> GasFastestStep, dynamicGas |-> nil, minStack |-> minDupStack(6), maxStack |-> maxDupStack(6), memorySize |-> nil],
     [op |-> "DUP7", execute |-> "opDup7", constantGas |-> GasFastestStep, dynamicGas |-> nil, minStack |-> minDupStack(7), maxStack |-> maxDupStack(7), memorySize |-> nil],
     [op |-> "DUP8", execute |-> "opDup8", constantGas |-> GasFastestStep, dynamicGas |-> nil, minStack |-> minDupStack(8), maxStack |-> maxDupStack(8), memorySize |-> nil],
     [op |-> "DUP9", execute |-> "opDup9", constantGas |-> GasFastestStep, dynamicGas |-> nil, minStack |-> minDupStack(9), maxStack |-> maxDupStack(9), memorySize |-> nil],
     [op |-> "DUP10", execute |-> "opDup10", constantGas |-> GasFastestStep, dynamicGas |-> nil, minStack |-> minDupStack(10), maxStack |-> maxDupStack(10), memorySize |-> nil],
     [op |-> "DUP11", execute |-> "opDup11", constantGas |-> GasFastestStep, dynamicGas |-> nil, minStack |-> minDupStack(11), maxStack |-> maxDupStack(11), memorySize |-> nil],
     [op |-> "DUP12", execute |-> "opDup12", constantGas |-> GasFastestStep, dynamicGas |-> nil, minStack |-> minDupStack(12), maxStack |-> maxDupStack(12), memorySize |-> nil],
     [op |-> "DUP13", execute |-> "opDup13", constantGas |-> GasFastestStep, dynamicGas |-> nil, minStack |-> minDupStack(13), maxStack |-> maxDupStack(13), memorySize |-> nil],
     [op |-> "DUP14", execute |-> "opDup14", constantGas |-> GasFastestStep, dynamicGas |-> nil, minStack |-> minDupStack(14), maxStack |-> maxDupStack(14), memorySize |-> nil],
     [op |-> "DUP15", execute |-> "opDup15", constantGas |-> GasFastestStep, dynamicGas |-> nil, minStack |-> minDupStack(15), maxStack |-> maxDupStack(15), memorySize |-> nil],
     [op |-> "DUP16", execute |-> "opDup16", constantGas |-> GasFastestStep, dynamicGas |-> nil, minStack |-> minDupStack(16), maxStack |-> maxDupStack(16), memorySize |-> nil],
     [op |-> "SWAP1", execute |-> "opSwap1", constantGas |-> GasFastestStep, dynamicGas |-> nil, minStack |-> minSwapStack(2), maxStack |-> maxSwapStack(2), memorySize |-> nil],
     [op |-> "SWAP2", execute |-> "opSwap2", constantGas |-> GasFastestStep, dynamicGas |-> nil, minStack |-> minSwapStack(3), maxStack |-> maxSwapStack(3), memorySize |-> nil],
     [op |-> "SWAP3", execute |-> "opSwap3", constantGas |-> GasFastestStep, dynamicGas |-> nil, minStack |-> minSwapStack(4), maxStack |-> maxSwapStack(4), memorySize |-> nil],
     [op |-> "SWAP4", execute |-> "opSwap4", constantGas |-> GasFastestStep, dynamicGas |-> nil, minStack |-> minSwapStack(5), maxStack |-> maxSwapStack(5), memorySize |-> nil],
     [op |-> "SWAP5", execute |-> "opSwap5", constantGas |-> GasFastestStep, dynamicGas |-> nil, minStack |-> minSwapStack(6), maxStack |-> maxSwapStack(6), memorySize |-> nil],
     [op |-> "SWAP6", execute |-> "opSwap6", constantGas |-> GasFastestStep, dynamicGas |-> nil, minStack |-> minSwapStack(7), maxStack |-> maxSwapStack(7), memorySize |-> nil],
     [op |-> "SWAP7", execute |-> "opSwap7", constantGas |-> GasFastestStep, dynamicGas |-> nil, minStack |-> minSwapStack(8), maxStack |-> maxSwapStack(8), memorySize |-> nil],
     [op |-> "SWAP8", execute |-> "opSwap8", constantGas |-> GasFastestStep, dynamicGas |-> nil, minStack |-> minSwapStack(9), maxStack |-> maxSwapStack(9), memorySize |-> nil],
     [op |-> "SWAP9", execute |-> "opSwap9", constantGas |-> GasFastestStep, dynamicGas |-> nil, minStack |-> minSwapStack(10), maxStack |-> maxSwapStack(10), memorySize |-> nil],
     [op |-> "SWAP10", execute |-> "opSwap10", constantGas |-> GasFastestStep, dynamicGas |-> nil, minStack |-> minSwapStack(11), maxStack |-> maxSwapStack(11), memorySize |-> nil],
     [op |-> "SWAP11", execute |-> "opSwap11", constantGas |-> GasFastestStep, dynamicGas |-> nil, minStack |-> minSwapStack(12), maxStack |-> maxSwapStack(12), memorySize |-> nil],
     [op |-> "SWAP12", execute |-> "opSwap12", constantGas |-> GasFastestStep, dynamicGas |-> nil, minStack |-> minSwapStack(13), maxStack |-> maxSwapStack(13), memorySize |-> nil],
     [op |-> "SWAP13", execute |-> "opSwap13", constantGas |-> GasFastestStep, dynamicGas |-> nil, minStack |-> minSwapStack(14), maxStack |-> maxSwapStack(14), memorySize |-> nil],
     [op |-> "SWAP14", execute |-> "opSwap14", constantGas |-> GasFastestStep, dynamicGas |-> nil, minStack |-> minSwapStack(15), maxStack |-> maxSwapStack(15), memorySize |-> nil],
     [op |-> "SWAP15", execute |-> "opSwap15", constantGas |-> GasFastestStep, dynamicGas |-> nil, minStack |-> minSwapStack(16), maxStack |-> maxSwapStack(16), memorySize |-> nil],
     [op |-> "SWAP16", execute |-> "opSwap16", constantGas |-> GasFastestStep, dynamicGas |-> nil, minStack |-> minSwapStack(17), maxStack |-> maxSwapStack(17), memorySize |-> nil],
     [op |-> "LOG0", execute |-> "makeLog(0)", constantGas |-> 0, dynamicGas |-> "makeGasLog(0)", minStack |-> minStack(2, 0), maxStack |-> maxStack(2, 0), memorySize |-> "memoryLog"],
     [op |-> "LOG1", execute |-> "makeLog(1)", constantGas |-> 0, dynamicGas |-> "makeGasLog(1)", minStack |-> minStack(3, 0), maxStack |-> maxStack(3, 0), memorySize |-> "memoryLog"],
     [op |-> "LOG2", execute |-> "makeLog(2)", constantGas |-> 0, dynamicGas |-> "makeGasLog(2)", minStack |-> minStack(4, 0), maxStack |-> maxStack(4, 0), memorySize |-> "memoryLog"],
     [op |-> "LOG3", execute |-> "makeLog(3)", constantGas |-> 0, dynamicGas |-> "makeGasLog(3)", minStack |-> minStack(5, 0), maxStack |-> maxStack(5, 0), memorySize |-> "memoryLog"],
     [op |-> "LOG4", execute |-> "makeLog(4)", constantGas |-> 0, dynamicGas |-> "makeGasLog(4)", minStack |-> minStack(6, 0), maxStack |-> maxStack(6, 0), memorySize |-> "memoryLog"],
     [op |-> "CREATE", execute |-> "opCreate", constantGas |-> params.CreateGas, dynamicGas |-> "gasCreate", minStack |-> minStack(3, 1), maxStack |-> maxStack(3, 1), memorySize |-> "memoryCreate"],
     [op |-> "CALL", execute |-> "opCall", constantGas |-> params.CallGasFrontier, dynamicGas |-> "gasCall", minStack |-> minStack(7, 1), maxStack |-> maxStack(7, 1), memorySize |-> "memoryCall"],
     [op |-> "CALLCODE", execute |-> "opCallCode", constantGas |-> params.CallGasFrontier, dynamicGas |-> "gasCallCode", minStack |-> minStack(7, 1), maxStack |-> maxStack(7, 1), memorySize |-> "memoryCall"],
     [op |-> "RETURN", execute |-> "opReturn", constantGas |-> 0, dynamicGas |-> "gasReturn", minStack |-> minStack(2, 0), maxStack |-> maxStack(2, 0), memorySize |-> "memoryReturn"],
     [op |-> "SELFDESTRUCT", execute |-> "opSelfdestruct", constantGas |-> 0, dynamicGas |-> "gasSelfdestruct", minStack |-> minStack(1, 0), maxStack |-> maxStack(1, 0), memorySize |-> nil] >>

----------------------------------------------------------------------------
(* Operation records, the heap of records, and tables of pointers.          *)

Forks == <<"Frontier", "Homestead", "TangerineWhistle", "SpuriousDragon",
           "Byzantium", "Constantinople", "Istanbul", "Berlin", "London">>

ForkNames == {Forks[i] : i \in 1..Len(Forks)}

ForkIndex(f) == CHOOSE i \in 1..Len(Forks) : Forks[i] = f

Bytes == 0..255

operation(e, cg, dg, mn, mx, ms) ==
  [execute |-> e, constantGas |-> cg, dynamicGas |-> dg,
   minStack |-> mn, maxStack |-> mx, memorySize |-> ms]

\* &operation{...} stored into slot b of the table under construction
SetOp(m, b, rec) ==
  [m EXCEPT !.h = Append(m.h, rec), !.jt = [m.jt EXCEPT ![b] = Len(m.h) + 1]]

\* instructionSet[b].constantGas = v ; a nil slot makes the assignment panic
SetConstantGas(m, b, v) ==
  IF m.jt[b] = 0 THEN [m EXCEPT !.panic = TRUE]
  ELSE [m EXCEPT !.h = [m.h EXCEPT ![m.jt[b]].constantGas = v]]

\* instructionSet[b].dynamicGas = g ; a nil slot makes the assignment panic
SetDynamicGas(m, b, g) ==
  IF m.jt[b] = 0 THEN [m EXCEPT !.panic = TRUE]
  ELSE [m EXCEPT !.h = [m.h EXCEPT ![m.jt[b]].dynamicGas = g]]

\* the three statements a constructor body is made of
Assign(b, rec) == [stmt |-> "operation", b |-> b, v |-> rec]
ConstantGas(b, v) == [stmt |-> "constantGas", b |-> b, v |-> v]
DynamicGas(b, g) == [stmt |-> "dynamicGas", b |-> b, v |-> g]

\* one statement runs, unless a panic has already ended the constructor
Do(m, s) ==
  IF m.panic THEN m
  ELSE CASE s.stmt = "operation"   -> SetOp(m, s.b, s.v)
         [] s.stmt = "constantGas" -> SetConstantGas(m, s.b, s.v)
         [] s.stmt = "dynamicGas"  -> SetDynamicGas(m, s.b, s.v)

\* the statements of a body run in the order they are written
RECURSIVE Exec(_, _)
Exec(m, stmts) ==
  IF stmts = <<>> THEN m ELSE Exec(Do(m, Head(stmts)), Tail(stmts))

\* validate: panics on a nil slot or on memorySize without dynamicGas,
\* otherwise hands the table back
validate_NoCouplingCheck(h, jt) ==
  IF \E i \in Bytes : jt[i] = 0
  THEN [panic |-> TRUE, jt |-> jt]
  ELSE [panic |-> FALSE, jt |-> jt]

validate(h, jt) ==
  IF \E i \in Bytes :
       \/ jt[i] = 0
       \/ jt[i] # 0 /\ h[jt[i]].memorySize # nil /\ h[jt[i]].dynamicGas = nil
  THEN [panic |-> TRUE, jt |-> jt]
  ELSE [panic |-> FALSE, jt |-> jt]

\* return validate(instructionSet)
Return(m) ==
  IF m.panic THEN m
  ELSE [h |-> m.h, jt |-> validate(m.h, m.jt).jt, panic |-> validate(m.h, m.jt).panic]

\* index into FrontierLiteral of the entry keyed by byte b, 0 when the literal has none
LiteralIndex ==
  [b \in Bytes |->
     LET S == {i \in 1..Len(FrontierLiteral) : OpCode[FrontierLiteral[i].op] = b}
     IN  IF S = {} THEN 0 ELSE CHOOSE i \in S : TRUE]

UnassignedSlots == {b \in Bytes : LiteralIndex[b] = 0}

\* position of slot b in the fill loop's order over the unassigned slots
FillRank == [b \in Bytes |-> Cardinality({c \in UnassignedSlots : c < b})]

LiteralRecord(e) ==
  operation(e.execute, e.constantGas, e.dynamicGas, e.minStack, e.maxStack, e.memorySize)

opUndefinedRecord == operation("opUndefined", 0, nil, 0, maxStack(0, 0), nil)

\* the table literal laid out on the heap, then the fill loop over the nil slots
BuildFrontier(h, literal, fill) ==
  Return([h |-> h \o [i \in 1..Len(literal) |-> LiteralRecord(literal[i])]
                  \o [i \in 1..Cardinality(UnassignedSlots) |-> fill],
          jt |-> [b \in Bytes |->
                    IF LiteralIndex[b] # 0 THEN Len(h) + LiteralIndex[b]
                    ELSE Len(h) + Len(literal) + FillRank[b] + 1],
          panic |-> FALSE])

\* the fill loop stores records without an execute function
newFrontierInstructionSet_NoExecute(h) ==
  BuildFrontier(h, FrontierLiteral, operation(nil, 0, nil, 0, maxStack(0, 0), nil))

\* the fill loop leaves maxStack at its zero value
newFrontierInstructionSet_UndefinedNoMaxStack(h) ==
  BuildFrontier(h, FrontierLiteral, operation("opUndefined", 0, nil, 0, 0, nil))

\* ADD declared with minStack(1, 1) and maxStack(1, 1)
newFrontierInstructionSet_AddArity(h) ==
  BuildFrontier(h, [FrontierLiteral EXCEPT
                      ![LiteralIndex[OpCode.ADD]].minStack = minStack(1, 1),
                      ![LiteralIndex[OpCode.ADD]].maxStack = maxStack(1, 1)],
                opUndefinedRecord)

\* STOP declared with constantGas GasQuickStep instead of 0
newFrontierInstructionSet_StopCostsGas(h) ==
  BuildFrontier(h, [FrontierLiteral EXCEPT
                      ![LiteralIndex[OpCode.STOP]].constantGas = GasQuickStep],
                opUndefinedRecord)

\* ADD declared with constantGas GasFastStep instead of GasFastestStep
newFrontierInstructionSet_AddCostsFast(h) ==
  BuildFrontier(h, [FrontierLiteral EXCEPT
                      ![LiteralIndex[OpCode.ADD]].constantGas = GasFastStep],
                opUndefinedRecord)

newFrontierInstructionSet(h) ==
  BuildFrontier(h, FrontierLiteral, opUndefinedRecord)

newHomesteadInstructionSet(h) ==
  Return(Exec(newFrontierInstructionSet(h), <<
    Assign(OpCode.DELEGATECALL,
           operation("opDelegateCall", params.CallGasFrontier, "gasDelegateCall",
                     minStack(6, 1), maxStack(6, 1), "memoryDelegateCall"))>>))

\* the statements of the Tangerine Whistle body: the EIP-150 repricing
TangerineWhistleBody == <<
  ConstantGas(OpCode.BALANCE, params.BalanceGasEIP150),
  ConstantGas(OpCode.EXTCODESIZE, params.ExtcodeSizeGasEIP150),
  ConstantGas(OpCode.SLOAD, params.SloadGasEIP150),
  ConstantGas(OpCode.EXTCODECOPY, params.ExtcodeCopyBaseEIP150),
  ConstantGas(OpCode.CALL, params.CallGasEIP150),
  ConstantGas(OpCode.CALLCODE, params.CallGasEIP150),
  ConstantGas(OpCode.DELEGATECALL, params.CallGasEIP150)>>

\* the body run on the package-level Homestead table instead of a fresh one
newTangerineWhistleInstructionSet_SharedBase(h) ==
  Return(Exec([h |-> h, jt |-> pkg["Homestead"], panic |-> FALSE],
              TangerineWhistleBody))

newTangerineWhistleInstructionSet(h) ==
  Return(Exec(newHomesteadInstructionSet(h), TangerineWhistleBody))

\* the layer also repricing the constantGas of EXP
newSpuriousDragonInstructionSet_ExpRepriced(h) ==
  Return(Exec(newTangerineWhistleInstructionSet(h), <<
    DynamicGas(OpCode.EXP, "gasExpEIP158"),
    ConstantGas(OpCode.EXP, GasFastStep)>>))

newSpuriousDragonInstructionSet(h) ==
  Return(Exec(newTangerineWhistleInstructionSet(h), <<
    DynamicGas(OpCode.EXP, "gasExpEIP158")>>))

\* the statements of the Byzantium body, REVERT with the dynamicGas given
ByzantiumBody(revertGas) == <<
  Assign(OpCode.STATICCALL,
         operation("opStaticCall", params.CallGasEIP150, "gasStaticCall",
                   minStack(6, 1), maxStack(6, 1), "memoryStaticCall")),
  Assign(OpCode.RETURNDATASIZE,
         operation("opReturnDataSize", GasQuickStep, nil,
                   minStack(0, 1), maxStack(0, 1), nil)),
  Assign(OpCode.RETURNDATACOPY,
         operation("opReturnDataCopy", GasFastestStep, "gasReturnDataCopy",
                   minStack(3, 0), maxStack(3, 0), "memoryReturnDataCopy")),
  Assign(OpCode.REVERT,
         operation("opRevert", 0, revertGas,
                   minStack(2, 0), maxStack(2, 0), "memoryRevert"))>>

\* REVERT stored without its dynamicGas function
newByzantiumInstructionSet_RevertNoGas(h) ==
  Return(Exec(newSpuriousDragonInstructionSet(h), ByzantiumBody(nil)))

\* the layer built on the Frontier table instead of the Spurious Dragon one
newByzantiumInstructionSet_FromFrontier(h) ==
  Return(Exec(newFrontierInstructionSet(h), ByzantiumBody("gasRevert")))

newByzantiumInstructionSet(h) ==
  Return(Exec(newSpuriousDragonInstructionSet(h), ByzantiumBody("gasRevert")))

\* the statements of the Constantinople body after the SHL assignment
ConstantinopleTail == <<
  Assign(OpCode.SHR,
         operation("opSHR", GasFastestStep, nil, minStack(2, 1), maxStack(2, 1), nil)),
  Assign(OpCode.SAR,
         operation("opSAR", GasFastestStep, nil, minStack(2, 1), maxStack(2, 1), nil)),
  Assign(OpCode.EXTCODEHASH,
         operation("opExtCodeHash", params.ExtcodeHashGasConstantinople, nil,
                   minStack(1, 1), maxStack(1, 1), nil)),
  Assign(OpCode.CREATE2,
         operation("opCreate2", params.Create2Gas, "gasCreate2",
                   minStack(4, 1), maxStack(4, 1), "memoryCreate2"))>>

\* SHL declared with maxStack(1, 1) next to minStack(2, 1)
newConstantinopleInstructionSet_ShlArity(h) ==
  Return(Exec(newByzantiumInstructionSet(h), <<
    Assign(OpCode.SHL,
           operation("opSHL", GasFastestStep, nil, minStack(2, 1), maxStack(1, 1), nil))>>
    \o ConstantinopleTail))

\* the SHL assignment left out
newConstantinopleInstructionSet_NoSHL(h) ==
  Return(Exec(newByzantiumInstructionSet(h), ConstantinopleTail))

newConstantinopleInstructionSet(h) ==
  Return(Exec(newByzantiumInstructionSet(h), <<
    Assign(OpCode.SHL,
           operation("opSHL", GasFastestStep, nil, minStack(2, 1), maxStack(2, 1), nil))>>
    \o ConstantinopleTail))

\* EIP-1344: the CHAINID opcode
enable1344(m) ==
  Exec(m, <<
    Assign(OpCode.CHAINID,
           operation("opChainID", GasQuickStep, nil, minStack(0, 1), maxStack(0, 1), nil))>>)

\* EIP-1884: BALANCE, EXTCODEHASH and SLOAD repriced, SELFBALANCE added
enable1884(m) ==
  Exec(m, <<
    ConstantGas(OpCode.SLOAD, params.SloadGasEIP1884),
    ConstantGas(OpCode.BALANCE, params.BalanceGasEIP1884),
    ConstantGas(OpCode.EXTCODEHASH, params.ExtcodeHashGasEIP1884),
    Assign(OpCode.SELFBALANCE,
           operation("opSelfBalance", GasFastStep, nil, minStack(0, 1), maxStack(0, 1), nil))>>)

\* EIP-2200: net-metered SSTORE
enable2200(m) ==
  Exec(m, <<
    ConstantGas(OpCode.SLOAD, params.SloadGasEIP2200),
    DynamicGas(OpCode.SSTORE, "gasSStoreEIP2200")>>)

\* EIP-2929: SLOAD, SSTORE, BALANCE, EXTCODE* switch to the access-list variants
enable2929(m) ==
  Exec(m, <<
    DynamicGas(OpCode.SSTORE, "gasSStoreEIP2929"),
    ConstantGas(OpCode.SLOAD, 0),
    DynamicGas(OpCode.SLOAD, "gasSLoadEIP2929"),
    ConstantGas(OpCode.EXTCODECOPY, params.WarmStorageReadCostEIP2929),
    DynamicGas(OpCode.EXTCODECOPY, "gasExtCodeCopyEIP2929"),
    ConstantGas(OpCode.EXTCODESIZE, params.WarmStorageReadCostEIP2929),
    DynamicGas(OpCode.EXTCODESIZE, "gasEip2929AccountCheck"),
    ConstantGas(OpCode.EXTCODEHASH, params.WarmStorageReadCostEIP2929),
    DynamicGas(OpCode.EXTCODEHASH, "gasEip2929AccountCheck"),
    ConstantGas(OpCode.BALANCE, params.WarmStorageReadCostEIP2929),
    DynamicGas(OpCode.BALANCE, "gasEip2929AccountCheck")>>)

\* EIP-3529: refund reduction in SSTORE and SELFDESTRUCT
enable3529(m) ==
  Exec(m, <<
    DynamicGas(OpCode.SSTORE, "gasSStoreEIP3529"),
    DynamicGas(OpCode.SELFDESTRUCT, "gasSelfdestructEIP3529")>>)

\* EIP-3198: the BASEFEE opcode
enable3198(m) ==
  Exec(m, <<
    Assign(OpCode.BASEFEE,
           operation("opBaseFee", GasQuickStep, nil, minStack(0, 1), maxStack(0, 1), nil))>>)

newIstanbulInstructionSet(h) ==
  Return(enable2200(enable1884(enable1344(newConstantinopleInstructionSet(h)))))

newBerlinInstructionSet(h) ==
  Return(enable2929(newIstanbulInstructionSet(h)))

newLondonInstructionSet(h) ==
  Return(enable3198(enable3529(newBerlinInstructionSet(h))))

\* the initialiser expression of each package-level table
Constructor(f, h) ==
  CASE f = "Frontier"         -> newFrontierInstructionSet(h)
    [] f = "Homestead"        -> newHomesteadInstructionSet(h)
    [] f = "TangerineWhistle" -> newTangerineWhistleInstructionSet(h)
    [] f = "SpuriousDragon"   -> newSpuriousDragonInstructionSet(h)
    [] f = "Byzantium"        -> newByzantiumInstructionSet(h)
    [] f = "Constantinople"   -> newConstantinopleInstructionSet(h)
    [] f = "Istanbul"         -> newIstanbulInstructionSet(h)
    [] f = "Berlin"           -> newBerlinInstructionSet(h)
    [] f = "London"           -> newLondonInstructionSet(h)

\* one package-level variable is initialised: its constructor runs to the end
InitTable ==
  /\ ~panicked
  /\ initIdx <= Len(Forks)
  /\ status = "idle"
  /\ \E r \in {Constructor(Forks[initIdx], heap)} :
       /\ heap' = r.h
       /\ IF r.panic
          THEN /\ panicked' = TRUE
               /\ UNCHANGED <<pkg, initIdx>>
          ELSE /\ pkg' = (Forks[initIdx] :> r.jt) @@ pkg
               /\ initIdx' = initIdx + 1
               /\ UNCHANGED panicked
  /\ UNCHANGED <<frameVars, validateVars, auxVars>>

Built(f) == f \in DOMAIN pkg

\* the record a built table holds for byte b
Op(f, b) == heap[pkg[f][b]]

InitDone == ~panicked /\ initIdx > Len(Forks)

\* the package-level initialiser of table f has run, to the end or into a panic
Attempted(f) == ForkIndex(f) < initIdx \/ (panicked /\ ForkIndex(f) = initIdx)

\* the opcode bytes each constructor assigns on top of the table it starts from
AddedBy(f) ==
  CASE f = "Frontier"         -> {OpCode[FrontierLiteral[i].op] : i \in 1..Len(FrontierLiteral)}
    [] f = "Homestead"        -> {OpCode.DELEGATECALL}
    [] f = "Byzantium"        -> {OpCode.STATICCALL, OpCode.RETURNDATASIZE,
                                  OpCode.RETURNDATACOPY, OpCode.REVERT}
    [] f = "Constantinople"   -> {OpCode.SHL, OpCode.SHR, OpCode.SAR, OpCode.EXTCODEHASH,
                                  OpCode.CREATE2}
    [] f = "Istanbul"         -> {OpCode.CHAINID, OpCode.SELFBALANCE}
    [] f = "London"           -> {OpCode.BASEFEE}
    [] OTHER                  -> {}

\* the opcode bytes assigned in table f: those of every layer up to f
AssignedTable == [f \in ForkNames |-> UNION {AddedBy(Forks[i]) : i \in 1..ForkIndex(f)}]

Assigned(f) == AssignedTable[f]

Defined(f, b) == Op(f, b).execute # "opUndefined"

----------------------------------------------------------------------------
(* 256-bit words: little-endian base-256 digits, no leading zero digits.    *)

WordBytes == 32

RECURSIVE Trim(_)
Trim(w) ==
  IF w = <<>> THEN <<>>
  ELSE IF w[Len(w)] = 0 THEN Trim(SubSeq(w, 1, Len(w) - 1)) ELSE w

\* reduction modulo 2^256
Wrap(w) == Trim(IF Len(w) > WordBytes THEN SubSeq(w, 1, WordBytes) ELSE w)

WordOfByte(b) == IF b = 0 THEN <<>> ELSE <<b>>

Digit(w, i) == IF i <= Len(w) THEN w[i] ELSE 0

RECURSIVE AddDigits(_, _, _, _)
AddDigits(a, b, i, carry) ==
  IF i > Len(a) /\ i > Len(b)
  THEN IF carry = 0 THEN <<>> ELSE <<carry>>
  ELSE LET s == Digit(a, i) + Digit(b, i) + carry
       IN  <<s % 256>> \o AddDigits(a, b, i + 1, s \div 256)

WordAdd(a, b) == Wrap(AddDigits(a, b, 1, 0))

RECURSIVE Doubled(_, _)
Doubled(w, n) == IF n = 0 THEN w ELSE Doubled(WordAdd(w, w), n - 1)

\* value << shift, zero when shift >= 256
WordShl(shift, value) ==
  IF Len(shift) > 1 THEN <<>> ELSE Doubled(value, Digit(shift, 1))

----------------------------------------------------------------------------
(* The interpreter's dispatch step on a table record.                       *)

\* stack items an execute function removes and adds
ArityTable ==
  [e \in {"opStop", "opJumpdest", "opUndefined"} |-> <<0, 0>>]
  @@ [e \in {"opAdd", "opMul", "opSub", "opDiv", "opSdiv", "opMod", "opSmod", "opExp",
             "opSignExtend", "opLt", "opGt", "opSlt", "opSgt", "opEq", "opAnd", "opXor",
             "opOr", "opByte", "opKeccak256", "opSHL", "opSHR", "opSAR"} |-> <<2, 1>>]
  @@ [e \in {"opAddmod", "opMulmod", "opCreate"} |-> <<3, 1>>]
  @@ [e \in {"opIszero", "opNot", "opBalance", "opCallDataLoad", "opExtCodeSize",
             "opBlockhash", "opMload", "opSload", "opExtCodeHash"} |-> <<1, 1>>]
  @@ [e \in {"opAddress", "opOrigin", "opCaller", "opCallValue", "opCallDataSize",
             "opCodeSize", "opGasprice", "opCoinbase", "opTimestamp", "opNumber",
             "opDifficulty", "opGasLimit", "opPc", "opMsize", "opGas",
             "opReturnDataSize", "opChainID", "opSelfBalance", "opBaseFee"} |-> <<0, 1>>]
  @@ [e \in {"opPush" \o ToString(n) : n \in 1..32} |-> <<0, 1>>]
  @@ [e \in {"opCallDataCopy", "opCodeCopy", "opReturnDataCopy"} |-> <<3, 0>>]
  @@ [e \in {"opExtCodeCopy"} |-> <<4, 0>>]
  @@ [e \in {"opPop", "opJump", "opSelfdestruct"} |-> <<1, 0>>]
  @@ [e \in {"opMstore", "opMstore8", "opSstore", "opJumpi", "opReturn", "opRevert"}
        |-> <<2, 0>>]
  @@ [e \in {"opCall", "opCallCode"} |-> <<7, 1>>]
  @@ [e \in {"opDelegateCall", "opStaticCall"} |-> <<6, 1>>]
  @@ [e \in {"opCreate2"} |-> <<4, 1>>]
  @@ [e \in {"makeLog(" \o ToString(n) \o ")" : n \in 0..4} |->
        <<(CHOOSE n \in 0..4 : e = "makeLog(" \o ToString(n) \o ")") + 2, 0>>]
  @@ [e \in {"opDup" \o ToString(n) : n \in 1..16} |->
        LET n == CHOOSE k \in 1..16 : e = "opDup" \o ToString(k) IN <<n, n + 1>>]
  @@ [e \in {"opSwap" \o ToString(n) : n \in 1..16} |->
        LET n == CHOOSE k \in 1..16 : e = "opSwap" \o ToString(k) IN <<n + 1, n + 1>>]

ExecArity(e) == ArityTable[e]

\* the opcode at position n of the code, STOP past its end
GetOp(c, n) == IF n < Len(c) THEN c[n + 1] ELSE OpCode.STOP

Top(s, k) == s[Len(s) - k + 1]

Popped(s, k) == SubSeq(s, 1, Len(s) - k)

\* execute: the effect of an operation's function on the frame
execute(e, fr) ==
  IF Len(fr.stack) < ExecArity(e)[1]
  THEN [fr EXCEPT !.status = "panic: stack index out of range"]
  ELSE
  CASE e = "opStop" -> [fr EXCEPT !.status = "stopped"]
    [] e = "opUndefined" -> [fr EXCEPT !.status = "ErrInvalidOpcode"]
    [] e = "opJumpdest" -> fr
    [] e = "opAdd" ->
         [fr EXCEPT !.stack = Append(Popped(fr.stack, 2),
                                     WordAdd(Top(fr.stack, 1), Top(fr.stack, 2)))]
    [] e = "opSHL" ->
         [fr EXCEPT !.stack = Append(Popped(fr.stack, 2),
                                     WordShl(Top(fr.stack, 1), Top(fr.stack, 2)))]
    [] e = "opPush1" ->
         [fr EXCEPT !.stack = Append(fr.stack,
                                     WordOfByte(IF fr.pc + 1 < Len(fr.code)
                                                THEN fr.code[fr.pc + 2] ELSE 0)),
                    !.pc = fr.pc + 1]
    [] e = "opDup1" -> [fr EXCEPT !.stack = Append(fr.stack, Top(fr.stack, 1))]
    [] e = "opPop" -> [fr EXCEPT !.stack = Popped(fr.stack, 1)]
    [] e = "opReturn" -> [fr EXCEPT !.stack = Popped(fr.stack, 2), !.status = "returned"]

\* what memorySize may report for a record: nothing to report without the function
MemorySizeResults(rec) ==
  IF rec.memorySize = nil THEN {[size |-> 0, overflow |-> FALSE]}
  ELSE {[size |-> 0, overflow |-> FALSE], [size |-> 33, overflow |-> FALSE],
        [size |-> 0, overflow |-> TRUE]}

\* what dynamicGas may report for a record: a cost or an error
DynamicGasResults(rec) ==
  IF rec.dynamicGas = nil THEN {[cost |-> 0, err |-> nil]}
  ELSE {[cost |-> 0, err |-> nil], [cost |-> 3, err |-> nil],
        [cost |-> 0, err |-> "ErrGasUintOverflow"]}

\* memory grows in whole words
ToWordSize(size) == ((size + 31) \div 32) * 32

\* the constant gas charged before the stack thresholds are looked at
Dispatch_GasBeforeStack(rec, fr, ms, dg) ==
  LET sLen == Len(fr.stack) IN
  IF fr.gas < rec.constantGas THEN [fr EXCEPT !.status = "ErrOutOfGas"]
  ELSE IF sLen < rec.minStack
       THEN [fr EXCEPT !.gas = fr.gas - rec.constantGas, !.status = "ErrStackUnderflow"]
  ELSE IF sLen > rec.maxStack
       THEN [fr EXCEPT !.gas = fr.gas - rec.constantGas, !.status = "ErrStackOverflow"]
  ELSE IF rec.memorySize # nil /\ ms.overflow THEN [fr EXCEPT !.status = "ErrGasUintOverflow"]
  ELSE LET g1 == fr.gas - rec.constantGas IN
  IF rec.dynamicGas # nil /\ dg.err # nil THEN [fr EXCEPT !.gas = g1, !.status = dg.err]
  ELSE IF rec.dynamicGas # nil /\ g1 < dg.cost THEN [fr EXCEPT !.gas = g1, !.status = "ErrOutOfGas"]
  ELSE LET g2 == IF rec.dynamicGas # nil THEN g1 - dg.cost ELSE g1
           req == IF rec.memorySize # nil THEN ms.size ELSE 0
           m2 == IF req > fr.memLen THEN ToWordSize(req) ELSE fr.memLen
           res == execute(rec.execute, [fr EXCEPT !.gas = g2, !.memLen = m2])
       IN  IF res.status = "running" THEN [res EXCEPT !.pc = res.pc + 1] ELSE res

\* one interpreter step on record rec, with ms and dg what the record's
\* memorySize and dynamicGas functions report
Dispatch(rec, fr, ms, dg) ==
  LET sLen == Len(fr.stack) IN
  IF sLen < rec.minStack THEN [fr EXCEPT !.status = "ErrStackUnderflow"]
  ELSE IF sLen > rec.maxStack THEN [fr EXCEPT !.status = "ErrStackOverflow"]
  ELSE IF rec.memorySize # nil /\ ms.overflow THEN [fr EXCEPT !.status = "ErrGasUintOverflow"]
  ELSE IF fr.gas < rec.constantGas THEN [fr EXCEPT !.status = "ErrOutOfGas"]
  ELSE LET g1 == fr.gas - rec.constantGas IN
  IF rec.dynamicGas # nil /\ dg.err # nil THEN [fr EXCEPT !.gas = g1, !.status = dg.err]
  ELSE IF rec.dynamicGas # nil /\ g1 < dg.cost THEN [fr EXCEPT !.gas = g1, !.status = "ErrOutOfGas"]
  ELSE LET g2 == IF rec.dynamicGas # nil THEN g1 - dg.cost ELSE g1
           req == IF rec.memorySize # nil THEN ms.size ELSE 0
           m2 == IF req > fr.memLen THEN ToWordSize(req) ELSE fr.memLen
           res == execute(rec.execute, [fr EXCEPT !.gas = g2, !.memLen = m2])
       IN  IF res.status = "running" THEN [res EXCEPT !.pc = res.pc + 1] ELSE res

Frame == [code |-> code, pc |-> pc, stack |-> stack, gas |-> gas,
          memLen |-> memLen, status |-> status]

----------------------------------------------------------------------------
(* Frames: the codes and gas amounts the interpreter is run on.             *)

MaxOperand == 1
MaxSmallGas == 9
BigGas == 1000000

Repeat(x, n) == [i \in 1..n |-> x]

AddProgram(a, b) == <<OpCode.PUSH1, a, OpCode.PUSH1, b, OpCode.ADD, OpCode.STOP>>
ShlProgram(a, b) == <<OpCode.PUSH1, a, OpCode.PUSH1, b, OpCode.SHL, OpCode.STOP>>

\* fills the stack to the limit, then one more opcode
DeepProgram(last) ==
  <<OpCode.PUSH1, 0>> \o Repeat(OpCode.DUP1, StackLimit - 1) \o <<last, OpCode.STOP>>

UnassignedSample == {12, 33, 254}

ShortPrograms ==
  {AddProgram(a, b) : a \in 0..MaxOperand, b \in 0..MaxOperand}
  \cup {AddProgram(255, b) : b \in 0..MaxOperand}
  \cup {AddProgram(5, 3)}
  \cup {ShlProgram(1, 2)} \cup {ShlProgram(1, b) : b \in 0..MaxOperand}
  \cup {<<b>> : b \in UnassignedSample}
  \cup {<<OpCode.PUSH1, 7, b>> : b \in UnassignedSample}
  \cup {<<OpCode.ADD>>, <<OpCode.PUSH1, 1, OpCode.ADD>>, <<OpCode.POP>>,
        <<OpCode.JUMPDEST, OpCode.PUSH1, 0, OpCode.PUSH1, 0, OpCode.RETURN>>,
        <<OpCode.PUSH1, 1, OpCode.POP>>, <<OpCode.PUSH1>>, <<>>}

DeepPrograms == {DeepProgram(OpCode.DUP1), DeepProgram(12)}

Programs == ShortPrograms \cup DeepPrograms

GasInputs == 0..MaxSmallGas \cup {BigGas}

\* a frame is started on a built table with an empty stack and empty memory
StartFrame(f, c, g) ==
  /\ InitDone
  /\ status = "idle"
  /\ fork' = f
  /\ code' = c
  /\ pc' = 0
  /\ stack' = <<>>
  /\ gas' = g
  /\ memLen' = 0
  /\ status' = "running"
  /\ lastOp' = -1
  /\ prevGas' = g
  /\ UNCHANGED <<tableVars, validateVars, auxVars>>

Call == \E f \in ForkNames, c \in Programs, g \in GasInputs : StartFrame(f, c, g)

CallShort == \E f \in ForkNames, c \in ShortPrograms : StartFrame(f, c, BigGas)

\* Run has returned: the frame is dropped
Finish ==
  /\ status \notin {"idle", "running"}
  /\ fork' = "Frontier"
  /\ code' = <<>>
  /\ pc' = 0
  /\ stack' = <<>>
  /\ gas' = 0
  /\ memLen' = 0
  /\ status' = "idle"
  /\ lastOp' = -1
  /\ prevGas' = 0
  /\ UNCHANGED <<tableVars, validateVars, auxVars>>

\* the interpreter loop's body: fetch, check, charge, execute, advance
Step ==
  /\ status = "running"
  /\ LET op == GetOp(code, pc)
         rec == Op(fork, op)
     IN  \E ms \in MemorySizeResults(rec), dg \in DynamicGasResults(rec) :
           LET r == Dispatch(rec, Frame, ms, dg)
           IN  /\ pc' = r.pc
               /\ stack' = r.stack
               /\ gas' = r.gas
               /\ memLen' = r.memLen
               /\ status' = r.status
               /\ lastOp' = op
               /\ prevGas' = gas
  /\ UNCHANGED <<fork, code, tableVars, validateVars, auxVars>>

----------------------------------------------------------------------------
(* validate on its own: tables with slots replaced by nil or by records     *)
(* with each combination of memorySize and dynamicGas.                      *)

NumPerturbed == 2

PerturbedSlots == {k * 85 : k \in 0..NumPerturbed - 1}

Replacements ==
  {"keep", "nil", "mem+dyn", "mem only", "dyn only", "neither"}

ReplacementRecord(kind) ==
  operation("opStop", 0,
            IF kind \in {"mem+dyn", "dyn only"} THEN "gasReturn" ELSE nil,
            minStack(0, 0), maxStack(0, 0),
            IF kind \in {"mem+dyn", "mem only"} THEN "memoryReturn" ELSE nil)

\* position of slot b among the perturbed slots, 1-based
PerturbedRank(b) == Cardinality({c \in PerturbedSlots : c <= b})

\* a Frontier table of its own, built on an empty heap
FrontierBase == newFrontierInstructionSet(<<>>)

\* the Frontier table with the slots of PerturbedSlots replaced as choice says
PerturbedTable(choice) ==
  [h |-> FrontierBase.h \o [i \in 1..Cardinality(PerturbedSlots) |->
                             ReplacementRecord(
                               choice[CHOOSE b \in PerturbedSlots : PerturbedRank(b) = i])],
   jt |-> [b \in Bytes |->
             IF b \notin PerturbedSlots \/ choice[b] = "keep" THEN FrontierBase.jt[b]
             ELSE IF choice[b] = "nil" THEN 0
             ELSE Len(FrontierBase.h) + PerturbedRank(b)]]

\* validate runs on the table
Validate ==
  /\ ~vOut.called
  /\ vOut' = [called |-> TRUE, panic |-> validate(vHeap, vIn).panic,
              jt |-> validate(vHeap, vIn).jt]
  /\ UNCHANGED <<tableVars, frameVars, vHeap, vIn, auxVars>>

----------------------------------------------------------------------------
(* Gas forwarded by a CALL-family step.                                     *)

MaxCallGas == 130

Min(a, b) == IF a <= b THEN a ELSE b

\* all but one 64th by rounding the remainder down to a multiple of one 64th
callGas_Floor(availableGas, callCost) ==
  Min(callCost, (63 * availableGas) \div 64)

\* the gas a CALL-family step forwards: the requested gas, capped at all but
\* one 64th of what the frame has left after the base cost
callGas(availableGas, callCost) ==
  Min(callCost, availableGas - availableGas \div 64)

\* a CALL, CALLCODE, DELEGATECALL or STATICCALL step hands gas to its sub-call
gasCall ==
  /\ callPhase = "idle"
  /\ \E rem \in 0..MaxCallGas,
        req \in {0, 1, 2, 62, 63, 64, 65, 126, 127, 128, 129, BigGas} :
       /\ gRem' = rem
       /\ gReq' = req
       /\ gFwd' = callGas(rem, req)
  /\ callPhase' = "forwarded"
  /\ UNCHANGED <<tableVars, frameVars, validateVars, snap, ovr, ctr>>
  /\ UNCHANGED <<dParams, dRes, dErr, dCalls, dPhase>>
  /\ UNCHANGED <<logs, sub, iter, itObs, watch, sink, quit>>

\* the sub-call has returned
callReturn ==
  /\ callPhase = "forwarded"
  /\ callPhase' = "idle"
  /\ gRem' = 0
  /\ gReq' = 0
  /\ gFwd' = 0
  /\ UNCHANGED <<tableVars, frameVars, validateVars, snap, ovr, ctr>>
  /\ UNCHANGED <<dParams, dRes, dErr, dCalls, dPhase>>
  /\ UNCHANGED <<logs, sub, iter, itObs, watch, sink, quit>>

----------------------------------------------------------------------------
(* Linking and deployment (accounts/abi/bind/v2): LinkAndDeploy over a      *)
(* deploy callback that may fail.  Bytecode is a sequence of tokens: hex     *)
(* chunks, and "__$", a pattern, "$__" for a library placeholder.            *)

MaxFailAt == 8

\* the metadata of the nested-libraries fixture: C1 uses L1 and L4, L4 uses
\* L3, L3 uses L2, L2 uses L1; C2 uses L1
nested_libraries ==
  [C1 |-> [Pattern |-> "c1",
           Bin |-> <<"60", "__$", "d1", "$__", "61", "__$", "d4", "$__", "62">>],
   C2 |-> [Pattern |-> "c2", Bin |-> <<"65", "__$", "d1", "$__">>],
   L1 |-> [Pattern |-> "d1", Bin |-> <<"64">>],
   L2 |-> [Pattern |-> "d2", Bin |-> <<"66", "__$", "d1", "$__">>],
   L3 |-> [Pattern |-> "d3", Bin |-> <<"67", "__$", "d2", "$__">>],
   L4 |-> [Pattern |-> "d4", Bin |-> <<"63", "__$", "d3", "$__">>]]

C1LibraryDeps ==
  <<nested_libraries.L1, nested_libraries.L2, nested_libraries.L3, nested_libraries.L4>>

\* ContractDeployParams: metadata and constructor input
ContractDeployParams(meta, input) == [Meta |-> meta, Input |-> input]

constructorInput == <<"2a", "01">>

\* a map is a function on its keys, <<>> the map without entries

\* reading a Go map: the zero value for a key it does not hold
MapGet(m, k, zero) == IF k \in DOMAIN m THEN m[k] ELSE zero

MapSet(m, k, v) == [x \in DOMAIN m \cup {k} |-> IF x = k THEN v ELSE m[x]]

\* common.Address as a number, 0 the zero address; its hex digits
AddrHex(a) == "ad" \o ToString(a)

\* DeploymentResult, and the nil *DeploymentResult
DeploymentResult(txs, addrs) == [Txs |-> txs, Addrs |-> addrs]
NilResult == [nilPointer |-> TRUE]

Accumulate(d, other) ==
  DeploymentResult(other.Txs @@ d.Txs, other.Addrs @@ d.Addrs)

\* FindAllStringSubmatch of __\$([a-f0-9]+)\$__ : the patterns of the
\* placeholders of a binary, in order
Matches(contractBin) ==
  LET at == SelectSeq([i \in 1..Len(contractBin) |-> i],
                      LAMBDA i : /\ i + 2 <= Len(contractBin)
                                 /\ contractBin[i] = "__$"
                                 /\ contractBin[i + 2] = "$__")
  IN  [k \in 1..Len(at) |-> contractBin[at[k] + 1]]

RECURSIVE buildDepTree(_, _, _)
buildDepTree(d, pattern, contractBin) ==
  LET deps == SelectSeq(Matches(contractBin), LAMBDA p : p \notin DOMAIN d.overrides)
  IN  [pattern |-> pattern,
       unlinkedCode |-> contractBin,
       nodes |-> [k \in 1..Len(deps) |->
                    buildDepTree(d, deps[k], MapGet(d.libs, deps[k], <<>>))]]

\* strings.ReplaceAll on tokens
ReplaceAll(s, old, new) == [i \in 1..Len(s) |-> IF s[i] = old THEN new ELSE s[i]]

\* common.Hex2Bytes: what decodes before the first character that is not hex
Hex2Bytes(s) ==
  LET bad == {i \in 1..Len(s) : s[i] \in {"__$", "$__"}}
  IN  IF bad = {} THEN s
      ELSE SubSeq(s, 1, (CHOOSE i \in bad : \A j \in bad : i <= j) - 1)

\* the deploy callback: its k-th invocation fails when k is in fails; calls is
\* the record of its invocations, with the node they were made for
deploy(cb, node, input, deployer) ==
  LET k == Len(cb.calls) + 1
      ok == k \notin cb.fails
      addr == IF ok THEN 100 + k ELSE 0
      tx == IF ok THEN "tx" \o ToString(k) ELSE nil
      err == IF ok THEN nil ELSE "err" \o ToString(k)
  IN  [addr |-> addr, tx |-> tx, err |-> err,
       cb |-> [cb EXCEPT !.calls = Append(@, [pattern |-> node.pattern,
                                              unlinkedCode |-> node.unlinkedCode,
                                              input |-> input,
                                              deployer |-> deployer,
                                              addr |-> addr, tx |-> tx,
                                              err |-> err])]]

\* the linking loop of linkAndDeploy over the children from the k-th on
RECURSIVE linkNodes(_, _, _, _)
linkNodes(d, deployerCode, nodes, k) ==
  IF k > Len(nodes) THEN deployerCode
  ELSE linkNodes(d,
                 ReplaceAll(deployerCode, nodes[k].pattern,
                            AddrHex(MapGet(d.deployedAddrs, nodes[k].pattern,
                                           0))),
                 nodes, k + 1)

\* what linkAndDeploy does with the callback's result
\* (every failure is recorded and every result stored)
linkAndDeployResult_StoreAlways(d, node, r) ==
  [d EXCEPT !.deploy = r.cb,
            !.deployedAddrs = MapSet(@, node.pattern, r.addr),
            !.deployerTxs = MapSet(@, node.pattern, r.tx)]

linkAndDeployResult(d, node, r) ==
  IF r.err # nil
  THEN [d EXCEPT !.deploy = r.cb, !.err = r.err]
  ELSE [d EXCEPT !.deploy = r.cb,
                 !.deployedAddrs = MapSet(@, node.pattern, r.addr),
                 !.deployerTxs = MapSet(@, node.pattern, r.tx)]

RECURSIVE linkAndDeploy(_, _)
RECURSIVE deployNodes(_, _, _)

\* the first loop of linkAndDeploy over the children from the k-th on
deployNodes(d, nodes, k) ==
  IF k > Len(nodes) THEN d
  ELSE deployNodes(linkAndDeploy(d, nodes[k]), nodes, k + 1)

linkAndDeploy(d, node) ==
  \* children first, then the node linked against them
  LET d1 == deployNodes(d, node.nodes, 1)
  IN  linkAndDeployResult(
        d1, node,
        deploy(d1.deploy, node,
               MapGet(d1.inputs, node.pattern, <<>>),
               Hex2Bytes(linkNodes(d1, node.unlinkedCode, node.nodes, 1))))

Result(d) ==
  IF d.err # nil THEN [res |-> NilResult, err |-> d.err]
  ELSE [res |-> DeploymentResult(d.deployerTxs, d.deployedAddrs), err |-> nil]

\* the treeDeployer LinkAndDeploy makes for one contract: inputs is left unset
treeDeployer(cb) ==
  [deploy |-> cb, deployedAddrs |-> <<>>, deployerTxs |-> <<>>,
   inputs |-> <<>>, err |-> nil]

\* the loop of LinkAndDeploy over the contracts from the k-th on
RECURSIVE deployContracts(_, _, _, _, _)
deployContracts(deployParams, unlinkedLibs, accumRes, cb, k) ==
  IF k > Len(deployParams.Contracts)
  THEN [res |-> accumRes, err |-> nil, cb |-> cb]
  ELSE
    LET contract == deployParams.Contracts[k]
    IN  IF contract.Meta.Pattern \in DOMAIN deployParams.Overrides
        THEN deployContracts(deployParams, unlinkedLibs, accumRes, cb, k + 1)
        ELSE
          LET deployer ==
                linkAndDeploy(
                  treeDeployer(cb),
                  buildDepTree([overrides |-> deployParams.Overrides,
                                libs |-> unlinkedLibs],
                               contract.Meta.Pattern, contract.Meta.Bin))
          IN  IF Result(deployer).err # nil
              THEN [res |-> accumRes, err |-> Result(deployer).err,
                    cb |-> deployer.deploy]
              ELSE deployContracts(deployParams, unlinkedLibs,
                                   Accumulate(accumRes, Result(deployer).res),
                                   deployer.deploy, k + 1)

LinkAndDeploy(deployParams, cb) ==
  deployContracts(
    deployParams,
    [p \in {deployParams.Libraries[i].Pattern : i \in DOMAIN deployParams.Libraries}
       |-> (CHOOSE m \in {deployParams.Libraries[i] : i \in DOMAIN deployParams.Libraries}
              : m.Pattern = p).Bin],
    DeploymentResult(<<>>, <<>>), cb, 1)

DeploymentParams(contracts, libraries, overrides) ==
  [Contracts |-> contracts, Libraries |-> libraries, Overrides |-> overrides]

ContractChoices ==
  {<<>>,
   <<ContractDeployParams(nested_libraries.C1, constructorInput)>>,
   <<ContractDeployParams(nested_libraries.C2, <<>>)>>,
   <<ContractDeployParams(nested_libraries.C1, constructorInput),
     ContractDeployParams(nested_libraries.C2, <<>>)>>}

OverrideChoices ==
  {<<>>,
   [p \in {"d1"} |-> 91],
   [p \in {"d1", "d2", "d3", "d4"} |-> IF p = "d1" THEN 91 ELSE IF p = "d2" THEN 92
                                        ELSE IF p = "d3" THEN 93 ELSE 94],
   [p \in {"c1"} |-> 95]}

\* every library a contract of the call needs is listed or overridden
ParamChoices ==
  {DeploymentParams(c, l, o) :
     c \in ContractChoices, l \in {<<>>, C1LibraryDeps}, o \in OverrideChoices}
  \ {DeploymentParams(c, <<>>, o) :
       c \in ContractChoices \ {<<>>},
       o \in {ov \in OverrideChoices : ~({"d1", "d2", "d3", "d4"} \subseteq DOMAIN ov)}}

\* one call of LinkAndDeploy
LinkAndDeployCall ==
  /\ dPhase = "idle"
  /\ \E deployParams \in ParamChoices, fails \in SUBSET (1..MaxFailAt) :
       \E r \in {LinkAndDeploy(deployParams, [fails |-> fails, calls |-> <<>>])} :
         /\ dParams' = deployParams
         /\ dRes' = r.res
         /\ dErr' = r.err
         /\ dCalls' = r.cb.calls
  /\ dPhase' = "returned"
  /\ UNCHANGED <<tableVars, frameVars, validateVars, snap, ovr, ctr>>
  /\ UNCHANGED <<gRem, gReq, gFwd, callPhase>>
  /\ UNCHANGED <<logs, sub, iter, itObs, watch, sink, quit>>

\* the caller is done with the result
DropResult ==
  /\ dPhase = "returned"
  /\ dParams' = DeploymentParams(<<>>, <<>>, <<>>)
  /\ dRes' = NilResult
  /\ dErr' = nil
  /\ dCalls' = <<>>
  /\ dPhase' = "idle"
  /\ UNCHANGED <<tableVars, frameVars, validateVars, snap, ovr, ctr>>
  /\ UNCHANGED <<gRem, gReq, gFwd, callPhase>>
  /\ UNCHANGED <<logs, sub, iter, itObs, watch, sink, quit>>

----------------------------------------------------------------------------
(* Events (accounts/abi/bind/v2): the log channel and subscription that     *)
(* FilterLogsById and WatchLogsForId hand out, EventIterator over them, and *)
(* the forwarding loop of WatchEvents.                                       *)

MaxLogs == 3
MaxNextCalls == 5

\* unpack: the event of a log, or an error for a log it cannot parse; an
\* event carries its raw log
unpack(log) ==
  IF log.ok
  THEN [ev |-> [Raw |-> log, name |-> "event"], err |-> nil]
  ELSE [ev |-> nil, err |-> "unpack error " \o ToString(log.n)]

\* a receive from s.Err(): ready with the error the subscription ended with,
\* and with nil once the channel is closed and empty
subErr(s) ==
  [ready |-> s.pending # nil \/ s.closed,
   value |-> s.pending,
   after |-> [s EXCEPT !.pending = nil]]

\* the backend puts the next log on the channel while the subscription runs
SendLog ==
  /\ ~sub.closed
  /\ ~sub.unsubscribed
  /\ Len(sub.produced) < MaxLogs
  /\ \E ok \in BOOLEAN :
       \E log \in {[n |-> Len(sub.produced) + 1, ok |-> ok]} :
         /\ logs' = Append(logs, log)
         /\ sub' = [sub EXCEPT !.produced = Append(@, log)]
  /\ UNCHANGED <<iter, itObs, watch, sink, quit>>
  /\ UNCHANGED <<tableVars, frameVars, validateVars, snap, ovr, ctr>>
  /\ UNCHANGED <<gRem, gReq, gFwd, callPhase, dParams, dRes, dErr, dCalls, dPhase>>

\* the subscription ends: with an error, or complete with its channel closed
SubEnd ==
  /\ ~sub.closed
  /\ \E e \in {nil, "subscription error"} :
       sub' = [sub EXCEPT !.pending = e, !.closed = TRUE]
  /\ UNCHANGED <<logs, iter, itObs, watch, sink, quit>>
  /\ UNCHANGED <<tableVars, frameVars, validateVars, snap, ovr, ctr>>
  /\ UNCHANGED <<gRem, gReq, gFwd, callPhase, dParams, dRes, dErr, dCalls, dPhase>>

RECURSIVE EventIteratorNext(_, _, _)

\* Next without the check of it.fail
EventIteratorNext_IgnoreFail(it, ch, s) ==
  LET same == [it |-> it, logs |-> ch, sub |-> s, ret |-> FALSE, recv |-> 0,
               err |-> nil]
      r == unpack(Head(ch))
      received ==
        IF r.err # nil
        THEN [it |-> [it EXCEPT !.fail = r.err], logs |-> Tail(ch), sub |-> s,
              ret |-> FALSE, recv |-> 1, err |-> r.err]
        ELSE [it |-> [it EXCEPT !.event = r.ev], logs |-> Tail(ch), sub |-> s,
              ret |-> TRUE, recv |-> 1, err |-> nil]
  IN  IF it.done THEN (IF ch # <<>> THEN {received} ELSE {same})
      ELSE (IF ch # <<>> THEN {received} ELSE {})
           \cup (IF subErr(s).ready
                 THEN {[o EXCEPT !.err = IF subErr(s).value # nil
                                         THEN subErr(s).value ELSE o.err] :
                         o \in EventIteratorNext(
                                 [it EXCEPT !.done = TRUE, !.fail = subErr(s).value],
                                 ch, subErr(s).after)}
                 ELSE {})

\* Next with a completed iterator never looking at the channel again
EventIteratorNext_DoneStops(it, ch, s) ==
  LET same == [it |-> it, logs |-> ch, sub |-> s, ret |-> FALSE, recv |-> 0,
               err |-> nil]
      r == unpack(Head(ch))
      received ==
        IF r.err # nil
        THEN [it |-> [it EXCEPT !.fail = r.err], logs |-> Tail(ch), sub |-> s,
              ret |-> FALSE, recv |-> 1, err |-> r.err]
        ELSE [it |-> [it EXCEPT !.event = r.ev], logs |-> Tail(ch), sub |-> s,
              ret |-> TRUE, recv |-> 1, err |-> nil]
  IN  IF it.fail # nil THEN {same}
      ELSE IF it.done THEN {same}
      ELSE (IF ch # <<>> THEN {received} ELSE {})
           \cup (IF subErr(s).ready
                 THEN {[o EXCEPT !.err = IF subErr(s).value # nil
                                         THEN subErr(s).value ELSE o.err] :
                         o \in EventIteratorNext(
                                 [it EXCEPT !.done = TRUE, !.fail = subErr(s).value],
                                 ch, subErr(s).after)}
                 ELSE {})

\* EventIterator.Next on iterator it, log channel ch and subscription s: the
\* outcomes the call can return with, one per channel its select may pick, none
\* while it blocks.  An outcome holds the iterator, channel and subscription
\* after the call, the value returned, the number of logs received and the
\* error unpack returned or the error channel delivered.
EventIteratorNext(it, ch, s) ==
  LET same == [it |-> it, logs |-> ch, sub |-> s, ret |-> FALSE, recv |-> 0,
               err |-> nil]
      r == unpack(Head(ch))
      received ==
        IF r.err # nil
        THEN [it |-> [it EXCEPT !.fail = r.err], logs |-> Tail(ch), sub |-> s,
              ret |-> FALSE, recv |-> 1, err |-> r.err]
        ELSE [it |-> [it EXCEPT !.event = r.ev], logs |-> Tail(ch), sub |-> s,
              ret |-> TRUE, recv |-> 1, err |-> nil]
  IN  IF it.fail # nil THEN {same}
      ELSE IF it.done THEN (IF ch # <<>> THEN {received} ELSE {same})
      ELSE (IF ch # <<>> THEN {received} ELSE {})
           \cup (IF subErr(s).ready
                 THEN {[o EXCEPT !.err = IF subErr(s).value # nil
                                         THEN subErr(s).value ELSE o.err] :
                         o \in EventIteratorNext(
                                 [it EXCEPT !.done = TRUE, !.fail = subErr(s).value],
                                 ch, subErr(s).after)}
                 ELSE {})

\* one call of Next by the iterator's user; itObs records what the user saw
NextCall ==
  /\ Len(itObs.rets) < MaxNextCalls
  /\ \E o \in EventIteratorNext(iter, logs, sub) :
       /\ iter' = o.it
       /\ logs' = o.logs
       /\ sub' = o.sub
       /\ itObs' = [rets |-> Append(itObs.rets, o.ret),
                    values |-> IF o.ret THEN Append(itObs.values, o.it.event)
                               ELSE itObs.values,
                    errs |-> IF o.err # nil THEN Append(itObs.errs, o.err)
                             ELSE itObs.errs,
                    recv |-> itObs.recv + o.recv]
  /\ UNCHANGED <<watch, sink, quit>>
  /\ UNCHANGED <<tableVars, frameVars, validateVars, snap, ovr, ctr>>
  /\ UNCHANGED <<gRem, gReq, gFwd, callPhase, dParams, dRes, dErr, dCalls, dPhase>>

\* the loop function returns e without its deferred sub.Unsubscribe()
watchReturn_NoDefer(w, e, s) ==
  /\ watch' = [w EXCEPT !.pc = "ended", !.result = e]
  /\ sub' = s

\* the loop function of WatchEvents returns e; the deferred sub.Unsubscribe()
\* runs on subscription s
watchReturn(w, e, s) ==
  /\ watch' = [w EXCEPT !.pc = "ended", !.result = e]
  /\ sub' = [s EXCEPT !.unsubscribed = TRUE, !.closed = TRUE]

\* the user unsubscribes the subscription WatchEvents returned: quit is closed
Quit ==
  /\ ~quit
  /\ quit' = TRUE
  /\ UNCHANGED <<logs, sub, iter, itObs, watch, sink>>
  /\ UNCHANGED <<tableVars, frameVars, validateVars, snap, ovr, ctr>>
  /\ UNCHANGED <<gRem, gReq, gFwd, callPhase, dParams, dRes, dErr, dCalls, dPhase>>

\* the outer select of the loop: a log, the subscription's error, or quit
WatchSelect ==
  /\ watch.pc = "select"
  /\ \/ /\ logs # <<>>
        /\ logs' = Tail(logs)
        /\ \E r \in {unpack(Head(logs))} :
             IF r.err # nil
             THEN watchReturn([watch EXCEPT !.recv = Append(@, Head(logs))],
                              r.err, sub)
             ELSE /\ watch' = [watch EXCEPT !.recv = Append(@, Head(logs)),
                                            !.pc = "send", !.ev = r.ev]
                  /\ sub' = sub
     \/ /\ subErr(sub).ready
        /\ logs' = logs
        /\ watchReturn(watch, subErr(sub).value, subErr(sub).after)
     \/ /\ quit
        /\ logs' = logs
        /\ watchReturn(watch, nil, sub)
  /\ UNCHANGED <<iter, itObs, sink, quit>>
  /\ UNCHANGED <<tableVars, frameVars, validateVars, snap, ovr, ctr>>
  /\ UNCHANGED <<gRem, gReq, gFwd, callPhase, dParams, dRes, dErr, dCalls, dPhase>>

\* the inner select: the event goes to sink, or the subscription's error or
\* quit ends the loop with the event unsent
WatchSend ==
  /\ watch.pc = "send"
  /\ \/ /\ sink' = Append(sink, watch.ev)
        /\ watch' = [watch EXCEPT !.pc = "select", !.ev = nil]
        /\ sub' = sub
     \/ /\ subErr(sub).ready
        /\ sink' = sink
        /\ watchReturn(watch, subErr(sub).value, subErr(sub).after)
     \/ /\ quit
        /\ sink' = sink
        /\ watchReturn(watch, nil, sub)
  /\ UNCHANGED <<logs, iter, itObs, quit>>
  /\ UNCHANGED <<tableVars, frameVars, validateVars, snap, ovr, ctr>>
  /\ UNCHANGED <<gRem, gReq, gFwd, callPhase, dParams, dRes, dErr, dCalls, dPhase>>

----------------------------------------------------------------------------
(* Era-file snapshot writer (core/rawdb): BufferedSnapWriter.               *)

MaxBuf == 3

\* a snappy block: the uncompressed length, then the bytes as one literal;
\* whatever dst holds is overwritten
Encode(dst, src) == <<Len(src)>> \o src

Write ==
  /\ \E p \in UNION {[1..n -> 0..1] : n \in 0..2} :
       /\ Len(snap.buf) + Len(p) <= MaxBuf
       /\ snap' = [snap EXCEPT !.buf = snap.buf \o p,
                               !.written = snap.written \o p,
                               !.arg = p, !.last = "Write"]
  /\ UNCHANGED <<tableVars, frameVars, validateVars, ovr, ctr>>
  /\ UNCHANGED <<gRem, gReq, gFwd, callPhase, dParams, dRes, dErr, dCalls, dPhase>>
  /\ UNCHANGED <<logs, sub, iter, itObs, watch, sink, quit>>

WriteTo ==
  /\ \E dst \in {Encode(snap.dst, snap.buf)} :
       snap' = [snap EXCEPT !.w = dst, !.dst = <<>>, !.buf = <<>>,
                            !.flushed = snap.written, !.written = <<>>,
                            !.arg = <<>>, !.last = "WriteTo"]
  /\ UNCHANGED <<tableVars, frameVars, validateVars, ovr, ctr>>
  /\ UNCHANGED <<gRem, gReq, gFwd, callPhase, dParams, dRes, dErr, dCalls, dPhase>>
  /\ UNCHANGED <<logs, sub, iter, itObs, watch, sink, quit>>

\* the call that also drains the buffer into the block
WriteDirectTo_Drain ==
  /\ \E buf \in UNION {[1..n -> 0..1] : n \in 0..2} :
       \E dst \in {Encode(snap.dst, snap.buf \o buf)} :
         snap' = [snap EXCEPT !.w = dst, !.dst = <<>>, !.buf = <<>>,
                              !.arg = buf, !.last = "WriteDirectTo"]
  /\ UNCHANGED <<tableVars, frameVars, validateVars, ovr, ctr>>
  /\ UNCHANGED <<gRem, gReq, gFwd, callPhase, dParams, dRes, dErr, dCalls, dPhase>>
  /\ UNCHANGED <<logs, sub, iter, itObs, watch, sink, quit>>

WriteDirectTo ==
  /\ \E buf \in UNION {[1..n -> 0..1] : n \in 0..2} :
       \E dst \in {Encode(snap.dst, buf)} :
         snap' = [snap EXCEPT !.w = dst, !.dst = <<>>,
                              !.arg = buf, !.last = "WriteDirectTo"]
  /\ UNCHANGED <<tableVars, frameVars, validateVars, ovr, ctr>>
  /\ UNCHANGED <<gRem, gReq, gFwd, callPhase, dParams, dRes, dErr, dCalls, dPhase>>
  /\ UNCHANGED <<logs, sub, iter, itObs, watch, sink, quit>>

----------------------------------------------------------------------------
(* Account overrides (core/state): overrideState.                           *)
(* A pointer is a sequence: <<>> is nil, <<v>> points to v.  A Go map is a  *)
(* function giving -1 for a key it does not hold; a nil map is <<>>.        *)

MaxCalls == 3

Addrs == {"a", "b"}
Keys == {"k1", "k2"}

\* the inner StateDatabase: accounts, and the journal's revisions
innerState ==
  [acct |-> [x \in Addrs |-> [balance |-> 5, nonce |-> 1, code |-> <<1>>,
                              storage |-> [k1 |-> 7, k2 |-> 8]]],
   journal |-> <<>>]

OverrideAccount(Balance, Nonce, Code, State, StateDiff) ==
  [Balance |-> Balance, Nonce |-> Nonce, Code |-> Code, State |-> State,
   StateDiff |-> StateDiff]

\* the override maps handed to NewOverrideState: no entry, an entry with no
\* field set, entries setting State, StateDiff or both; "b" never has one
StateOverride ==
  {[a |-> e, b |-> <<>>] : e \in
    { <<>>,
      <<OverrideAccount(<<>>, <<>>, <<>>, <<>>, <<>>)>>,
      <<OverrideAccount(<<3>>, <<4>>, << <<9, 9>> >>, <<[k1 |-> 2, k2 |-> -1]>>, <<>>)>>,
      <<OverrideAccount(<<3>>, <<4>>, << <<9, 9>> >>, <<>>, <<[k1 |-> 2, k2 |-> -1]>>)>>,
      <<OverrideAccount(<<>>, <<>>, <<>>, <<>>, <<[k1 |-> 2, k2 |-> -1]>>)>>,
      <<OverrideAccount(<<>>, <<>>, <<>>, <<[k1 |-> -1, k2 |-> 2]>>,
                        <<[k1 |-> 3, k2 |-> -1]>>)>> }}

\* elems: whether the override map holds OverrideAccount values or pointers
\* to them
NewOverrideState ==
  /\ ovr.last = "none"
  /\ \E overrides \in StateOverride, elems \in {"value", "pointer"} :
       ovr' = [ovr EXCEPT !.s = [inner |-> innerState, overrides |-> overrides,
                                 elems |-> elems],
                          !.last = "NewOverrideState"]
  /\ UNCHANGED <<tableVars, frameVars, validateVars, snap, ctr>>
  /\ UNCHANGED <<gRem, gReq, gFwd, callPhase, dParams, dRes, dErr, dCalls, dPhase>>
  /\ UNCHANGED <<logs, sub, iter, itObs, watch, sink, quit>>

GetBalance(s, addr) ==
  IF s.overrides[addr] # <<>> /\ s.overrides[addr][1].Balance # <<>>
  THEN s.overrides[addr][1].Balance[1]
  ELSE s.inner.acct[addr].balance

GetNonce(s, addr) ==
  IF s.overrides[addr] # <<>> /\ s.overrides[addr][1].Nonce # <<>>
  THEN s.overrides[addr][1].Nonce[1]
  ELSE s.inner.acct[addr].nonce

GetCode(s, addr) ==
  IF s.overrides[addr] # <<>> /\ s.overrides[addr][1].Code # <<>>
  THEN s.overrides[addr][1].Code[1]
  ELSE s.inner.acct[addr].code

GetCodeSize(s, addr) == Len(s.inner.acct[addr].code)

\* State consulted only for the slots it holds
GetState_StateFallsThrough(s, addr, hash) ==
  IF s.overrides[addr] = <<>> THEN s.inner.acct[addr].storage[hash]
  ELSE IF s.overrides[addr][1].State # <<>>
          /\ s.overrides[addr][1].State[1][hash] # -1
       THEN s.overrides[addr][1].State[1][hash]
  ELSE IF s.overrides[addr][1].StateDiff # <<>>
          /\ s.overrides[addr][1].StateDiff[1][hash] # -1
       THEN s.overrides[addr][1].StateDiff[1][hash]
  ELSE s.inner.acct[addr].storage[hash]

GetState(s, addr, hash) ==
  IF s.overrides[addr] = <<>> THEN s.inner.acct[addr].storage[hash]
  ELSE IF s.overrides[addr][1].State # <<>>
       THEN IF s.overrides[addr][1].State[1][hash] = -1 THEN 0
            ELSE s.overrides[addr][1].State[1][hash]
  ELSE IF s.overrides[addr][1].StateDiff # <<>>
          /\ s.overrides[addr][1].StateDiff[1][hash] # -1
       THEN s.overrides[addr][1].StateDiff[1][hash]
  ELSE s.inner.acct[addr].storage[hash]

\* the inner database opens a revision; the overrides are no part of it
Snapshot ==
  /\ ovr.last # "none"
  /\ ovr.calls < MaxCalls
  /\ ovr' = [ovr EXCEPT !.s.inner.journal = Append(@, ovr.s.inner.acct),
                        !.saved = <<ovr.s>>,
                        !.ret = Len(ovr.s.inner.journal),
                        !.calls = @ + 1, !.last = "Snapshot"]
  /\ UNCHANGED <<tableVars, frameVars, validateVars, snap, ctr>>
  /\ UNCHANGED <<gRem, gReq, gFwd, callPhase, dParams, dRes, dErr, dCalls, dPhase>>
  /\ UNCHANGED <<logs, sub, iter, itObs, watch, sink, quit>>

\* called with the id the latest Snapshot returned
RevertToSnapshot ==
  /\ ovr.saved # <<>>
  /\ ovr.calls < MaxCalls
  /\ \E i \in {Len(ovr.saved[1].inner.journal)} :
       /\ i < Len(ovr.s.inner.journal)
       /\ ovr' = [ovr EXCEPT !.s.inner.acct = ovr.s.inner.journal[i + 1],
                          !.s.inner.journal = SubSeq(@, 1, i),
                          !.calls = @ + 1, !.last = "RevertToSnapshot"]
  /\ UNCHANGED <<tableVars, frameVars, validateVars, snap, ctr>>
  /\ UNCHANGED <<gRem, gReq, gFwd, callPhase, dParams, dRes, dErr, dCalls, dPhase>>
  /\ UNCHANGED <<logs, sub, iter, itObs, watch, sink, quit>>

\* amounts the account can pay: the subtraction does not wrap
SubBalance ==
  /\ ovr.last # "none"
  /\ ovr.calls < MaxCalls
  /\ \E addr \in Addrs, amount \in {2} :
       /\ amount <= GetBalance(ovr.s, addr)
       /\ ovr' = [ovr EXCEPT
            !.s = IF ovr.s.overrides[addr] # <<>>
                     /\ ovr.s.overrides[addr][1].Balance # <<>>
                  THEN [ovr.s EXCEPT !.overrides[addr][1].Balance[1] = @ - amount]
                  ELSE [ovr.s EXCEPT !.inner.acct[addr].balance = @ - amount],
            !.ret = GetBalance(ovr.s, addr),
            !.calls = @ + 1, !.last = "SubBalance"]
  /\ UNCHANGED <<tableVars, frameVars, validateVars, snap, ctr>>
  /\ UNCHANGED <<gRem, gReq, gFwd, callPhase, dParams, dRes, dErr, dCalls, dPhase>>
  /\ UNCHANGED <<logs, sub, iter, itObs, watch, sink, quit>>

AddBalance ==
  /\ ovr.last # "none"
  /\ ovr.calls < MaxCalls
  /\ \E addr \in Addrs, amount \in {1} :
       ovr' = [ovr EXCEPT
            !.s = IF ovr.s.overrides[addr] # <<>>
                     /\ ovr.s.overrides[addr][1].Balance # <<>>
                  THEN [ovr.s EXCEPT !.overrides[addr][1].Balance[1] = @ + amount]
                  ELSE [ovr.s EXCEPT !.inner.acct[addr].balance = @ + amount],
            !.ret = GetBalance(ovr.s, addr),
            !.calls = @ + 1, !.last = "AddBalance"]
  /\ UNCHANGED <<tableVars, frameVars, validateVars, snap, ctr>>
  /\ UNCHANGED <<gRem, gReq, gFwd, callPhase, dParams, dRes, dErr, dCalls, dPhase>>
  /\ UNCHANGED <<logs, sub, iter, itObs, watch, sink, quit>>

\* acc is the map's element: a copy of the OverrideAccount when the map holds
\* values, and then the assignment to acc.Nonce is lost with it
SetNonce ==
  /\ ovr.last # "none"
  /\ ovr.calls < MaxCalls
  /\ \E addr \in Addrs, nonce \in {6} :
       ovr' = [ovr EXCEPT
            !.s = IF ovr.s.overrides[addr] # <<>>
                  THEN IF ovr.s.elems = "pointer"
                       THEN [ovr.s EXCEPT !.overrides[addr][1].Nonce = <<nonce>>]
                       ELSE ovr.s
                  ELSE [ovr.s EXCEPT !.inner.acct[addr].nonce = nonce],
            !.calls = @ + 1, !.last = "SetNonce"]
  /\ UNCHANGED <<tableVars, frameVars, validateVars, snap, ctr>>
  /\ UNCHANGED <<gRem, gReq, gFwd, callPhase, dParams, dRes, dErr, dCalls, dPhase>>
  /\ UNCHANGED <<logs, sub, iter, itObs, watch, sink, quit>>

SetCode ==
  /\ ovr.last # "none"
  /\ ovr.calls < MaxCalls
  /\ \E addr \in Addrs, c \in {<<7, 7, 7>>} :
       ovr' = [ovr EXCEPT
            !.s = IF ovr.s.overrides[addr] # <<>>
                  THEN IF ovr.s.elems = "pointer"
                       THEN [ovr.s EXCEPT !.overrides[addr][1].Code = <<c>>]
                       ELSE ovr.s
                  ELSE [ovr.s EXCEPT !.inner.acct[addr].code = c],
            !.calls = @ + 1, !.last = "SetCode"]
  /\ UNCHANGED <<tableVars, frameVars, validateVars, snap, ctr>>
  /\ UNCHANGED <<gRem, gReq, gFwd, callPhase, dParams, dRes, dErr, dCalls, dPhase>>
  /\ UNCHANGED <<logs, sub, iter, itObs, watch, sink, quit>>

\* State and StateDiff are maps: a write through acc reaches the map the
\* override holds, whichever way the element was read
SetState ==
  /\ ovr.last # "none"
  /\ ovr.calls < MaxCalls
  /\ \E addr \in Addrs, key \in Keys, value \in {5} :
       ovr' = [ovr EXCEPT
            !.s = IF ovr.s.overrides[addr] # <<>>
                     /\ ovr.s.overrides[addr][1].State # <<>>
                  THEN [ovr.s EXCEPT !.overrides[addr][1].State[1][key] = value]
                  ELSE IF ovr.s.overrides[addr] # <<>>
                          /\ ovr.s.overrides[addr][1].StateDiff # <<>>
                          /\ ovr.s.overrides[addr][1].StateDiff[1][key] # -1
                  THEN [ovr.s EXCEPT !.overrides[addr][1].StateDiff[1][key] = value]
                  ELSE [ovr.s EXCEPT !.inner.acct[addr].storage[key] = value],
            !.ret = IF ovr.s.overrides[addr] # <<>>
                       /\ ovr.s.overrides[addr][1].State # <<>>
                    THEN IF ovr.s.overrides[addr][1].State[1][key] = -1 THEN 0
                         ELSE ovr.s.overrides[addr][1].State[1][key]
                    ELSE IF ovr.s.overrides[addr] # <<>>
                            /\ ovr.s.overrides[addr][1].StateDiff # <<>>
                            /\ ovr.s.overrides[addr][1].StateDiff[1][key] # -1
                    THEN ovr.s.overrides[addr][1].StateDiff[1][key]
                    ELSE ovr.s.inner.acct[addr].storage[key],
            !.before = GetState(ovr.s, addr, key),
            !.args = [addr |-> addr, key |-> key, value |-> value],
            !.calls = @ + 1, !.last = "SetState"]
  /\ UNCHANGED <<tableVars, frameVars, validateVars, snap, ctr>>
  /\ UNCHANGED <<gRem, gReq, gFwd, callPhase, dParams, dRes, dErr, dCalls, dPhase>>
  /\ UNCHANGED <<logs, sub, iter, itObs, watch, sink, quit>>

----------------------------------------------------------------------------
(* Metrics counter of the binding tests: CounterFloat64, atomicAddFloat.    *)
(* A float64 holds an integer of bounded size; its bits are the sign bit    *)
(* and the magnitude.                                                       *)

NumGoroutines == 3

Float64bits(f) == IF f < 0 THEN 1024 + (0 - f) ELSE f

Float64frombits(b) == IF b >= 1024 THEN 0 - (b - 1024) ELSE b

\* goroutine g enters Inc(v): atomicAddFloat(&c.floatBits, v)
Inc ==
  /\ \E g \in 1..NumGoroutines, v \in 1..2 :
       /\ ctr.pc[g] = "idle"
       /\ ctr' = [ctr EXCEPT !.pc[g] = "load", !.v[g] = v]
  /\ UNCHANGED <<tableVars, frameVars, validateVars, snap, ovr>>
  /\ UNCHANGED <<gRem, gReq, gFwd, callPhase, dParams, dRes, dErr, dCalls, dPhase>>
  /\ UNCHANGED <<logs, sub, iter, itObs, watch, sink, quit>>

\* goroutine g enters Dec(v): atomicAddFloat(&c.floatBits, -v)
Dec ==
  /\ \E g \in 1..NumGoroutines, v \in 1..2 :
       /\ ctr.pc[g] = "idle"
       /\ ctr' = [ctr EXCEPT !.pc[g] = "load", !.v[g] = 0 - v]
  /\ UNCHANGED <<tableVars, frameVars, validateVars, snap, ovr>>
  /\ UNCHANGED <<gRem, gReq, gFwd, callPhase, dParams, dRes, dErr, dCalls, dPhase>>
  /\ UNCHANGED <<logs, sub, iter, itObs, watch, sink, quit>>

\* loadedBits := fbits.Load()
Load ==
  /\ \E g \in 1..NumGoroutines :
       /\ ctr.pc[g] = "load"
       /\ ctr' = [ctr EXCEPT !.pc[g] = "cas", !.loadedBits[g] = ctr.floatBits]
  /\ UNCHANGED <<tableVars, frameVars, validateVars, snap, ovr>>
  /\ UNCHANGED <<gRem, gReq, gFwd, callPhase, dParams, dRes, dErr, dCalls, dPhase>>
  /\ UNCHANGED <<logs, sub, iter, itObs, watch, sink, quit>>

\* the new bits stored whatever the counter holds by now
CompareAndSwap_Store ==
  /\ \E g \in 1..NumGoroutines :
       /\ ctr.pc[g] = "cas"
       /\ ctr' = [ctr EXCEPT
            !.floatBits = Float64bits(Float64frombits(ctr.loadedBits[g]) + ctr.v[g]),
            !.pc[g] = "returned"]
  /\ UNCHANGED <<tableVars, frameVars, validateVars, snap, ovr>>
  /\ UNCHANGED <<gRem, gReq, gFwd, callPhase, dParams, dRes, dErr, dCalls, dPhase>>
  /\ UNCHANGED <<logs, sub, iter, itObs, watch, sink, quit>>

\* fbits.CompareAndSwap(loadedBits, newBits): on success the loop breaks and
\* the call returns, otherwise the loop loads again
CompareAndSwap ==
  /\ \E g \in 1..NumGoroutines :
       /\ ctr.pc[g] = "cas"
       /\ ctr' = IF ctr.floatBits = ctr.loadedBits[g]
                 THEN [ctr EXCEPT
                        !.floatBits =
                          Float64bits(Float64frombits(ctr.loadedBits[g]) + ctr.v[g]),
                        !.pc[g] = "returned"]
                 ELSE [ctr EXCEPT !.pc[g] = "load"]
  /\ UNCHANGED <<tableVars, frameVars, validateVars, snap, ovr>>
  /\ UNCHANGED <<gRem, gReq, gFwd, callPhase, dParams, dRes, dErr, dCalls, dPhase>>
  /\ UNCHANGED <<logs, sub, iter, itObs, watch, sink, quit>>

----------------------------------------------------------------------------
(* The legacy record layout (core/vm/jump_table.go): a table is an array of *)
(* operation values, each with a valid flag and a validateStack function.   *)

\* the stack check of an operation popping pop items and pushing push items;
\* a nil stackValidationFunc is <<>>
makeStackFunc(pop, push) == <<pop, push>>

makeDupStackFunc(n) == makeStackFunc(n, n + 1)

makeSwapStackFunc(n) == makeStackFunc(n, n)

\* one record per entry of the legacy literal, op naming the opcode constant
\* that keys it (SHA3 is the legacy name of byte 0x20); pop1push0, pop0push0
\* and pop0push1 are written as the makeStackFunc calls they name
LegacyLiteral ==
  << [op |-> "STOP", execute |-> "opStop", validateStack |-> makeStackFunc(0, 0), memorySize |-> nil, halts |-> TRUE, jumps |-> FALSE, writes |-> FALSE, valid |-> TRUE, reverts |-> FALSE, returns |-> FALSE, constGas |-> 0, dynamicGas |-> nil],
     [op |-> "ADD", execute |-> "opAdd", validateStack |-> makeStackFunc(2, 1), memorySize |-> nil, halts |-> FALSE, jumps |-> FALSE, writes |-> FALSE, valid |-> TRUE, reverts |-> FALSE, returns |-> FALSE, constGas |-> GasFastestStep, dynamicGas |-> nil],
     [op |-> "MUL", execute |-> "opMul", validateStack |-> makeStackFunc(2, 1), memorySize |-> nil, halts |-> FALSE, jumps |-> FALSE, writes |-> FALSE, valid |-> TRUE, reverts |-> FALSE, returns |-> FALSE, constGas |-> GasFastStep, dynamicGas |-> nil],
     [op |-> "SUB", execute |-> "opSub", validateStack |-> makeStackFunc(2, 1), memorySize |-> nil, halts |-> FALSE, jumps |-> FALSE, writes |-> FALSE, valid |-> TRUE, reverts |-> FALSE, returns |-> FALSE, constGas |-> GasFastestStep, dynamicGas |-> nil],
     [op |-> "DIV", execute |-> "opDiv", validateStack |-> makeStackFunc(2, 1), memorySize |-> nil, halts |-> FALSE, jumps |-> FALSE, writes |-> FALSE, valid |-> TRUE, reverts |-> FALSE, returns |-> FALSE, constGas |-> GasFastStep, dynamicGas |-> nil],
     [op |-> "SDIV", execute |-> "opSdiv", validateStack |-> makeStackFunc(2, 1), memorySize |-> nil, halts |-> FALSE, jumps |-> FALSE, writes |-> FALSE, valid |-> TRUE, reverts |-> FALSE, returns |-> FALSE, constGas |-> GasFastStep, dynamicGas |-> nil],
     [op |-> "MOD", execute |-> "opMod", validateStack |-> makeStackFunc(2, 1), memorySize |-> nil, halts |-> FALSE, jumps |-> FALSE, writes |-> FALSE, valid |-> TRUE, reverts |-> FALSE, returns |-> FALSE, constGas |-> GasFastStep, dynamicGas |-> nil],
     [op |-> "SMOD", execute |-> "opSmod", validateStack |-> makeStackFunc(2, 1), memorySize |-> nil, halts |-> FALSE, jumps |-> FALSE, writes |-> FALSE, valid |-> TRUE, reverts |-> FALSE, returns |-> FALSE, constGas |-> GasFastStep, dynamicGas |-> nil],
     [op |-> "ADDMOD", execute |-> "opAddmod", validateStack |-> makeStackFunc(3, 1), memorySize |-> nil, halts |-> FALSE, jumps |-> FALSE, writes |-> FALSE, valid |-> TRUE, reverts |-> FALSE, returns |-> FALSE, constGas |-> GasMidStep, dynamicGas |-> nil],
     [op |-> "MULMOD", execute |-> "opMulmod", validateStack |-> makeStackFunc(3, 1), memorySize |-> nil, halts |-> FALSE, jumps |-> FALSE, writes |-> FALSE, valid |-> TRUE, reverts |-> FALSE, returns |-> FALSE, constGas |-> GasMidStep, dynamicGas |-> nil],
     [op |-> "EXP", execute |-> "opExp", validateStack |-> makeStackFunc(2, 1), memorySize |-> nil, halts |-> FALSE, jumps |-> FALSE, writes |-> FALSE, valid |-> TRUE, reverts |-> FALSE, returns |-> FALSE, constGas |-> 0, dynamicGas |-> "gasExp"],
     [op |-> "SIGNEXTEND", execute |-> "opSignExtend", validateStack |-> makeStackFunc(2, 1), memorySize |-> nil, halts |-> FALSE, jumps |-> FALSE, writes |-> FALSE, valid |-> TRUE, reverts |-> FALSE, returns |-> FALSE, constGas |-> GasFastStep, dynamicGas |-> nil],
     [op |-> "LT", execute |-> "opLt", validateStack |-> makeStackFunc(2, 1), memorySize |-> nil, halts |-> FALSE, jumps |-> FALSE, writes |-> FALSE, valid |-> TRUE, reverts |-> FALSE, returns |-> FALSE, constGas |-> GasFastestStep, dynamicGas |-> nil],
     [op |-> "GT", execute |-> "opGt", validateStack |-> makeStackFunc(2, 1), memorySize |-> nil, halts |-> FALSE, jumps |-> FALSE, writes |-> FALSE, valid |-> TRUE, reverts |-> FALSE, returns |-> FALSE, constGas |-> GasFastestStep, dynamicGas |-> nil],
     [op |-> "SLT", execute |-> "opSlt", validateStack |-> makeStackFunc(2, 1), memorySize |-> nil, halts |-> FALSE, jumps |-> FALSE, writes |-> FALSE, valid |-> TRUE, reverts |-> FALSE, returns |-> FALSE, constGas |-> GasFastestStep, dynamicGas |-> nil],
     [op |-> "SGT", execute |-> "opSgt", validateStack |-> makeStackFunc(2, 1), memorySize |-> nil, halts |-> FALSE, jumps |-> FALSE, writes |-> FALSE, valid |-> TRUE, reverts |-> FALSE, returns |-> FALSE, constGas |-> GasFastestStep, dynamicGas |-> nil],
     [op |-> "EQ", execute |-> "opEq", validateStack |-> makeStackFunc(2, 1), memorySize |-> nil, halts |-> FALSE, jumps |-> FALSE, writes |-> FALSE, valid |-> TRUE, reverts |-> FALSE, returns |-> FALSE, constGas |-> GasFastestStep, dynamicGas |-> nil],
     [op |-> "ISZERO", execute |-> "opIszero", validateStack |-> makeStackFunc(1, 1), memorySize |-> nil, halts |-> FALSE, jumps |-> FALSE, writes |-> FALSE, valid |-> TRUE, reverts |-> FALSE, returns |-> FALSE, constGas |-> GasFastestStep, dynamicGas |-> nil],
     [op |-> "AND", execute |-> "opAnd", validateStack |-> makeStackFunc(2, 1), memorySize |-> nil, halts |-> FALSE, jumps |-> FALSE, writes |-> FALSE, valid |-> TRUE, reverts |-> FALSE, returns |-> FALSE, constGas |-> GasFastestStep, dynamicGas |-> nil],
     [op |-> "XOR", execute |-> "opXor", validateStack |-> makeStackFunc(2, 1), memorySize |-> nil, halts |-> FALSE, jumps |-> FALSE, writes |-> FALSE, valid |-> TRUE, reverts |-> FALSE, returns |-> FALSE, constGas |-> GasFastestStep, dynamicGas |-> nil],
     [op |-> "OR", execute |-> "opOr", validateStack |-> makeStackFunc(2, 1), memorySize |-> nil, halts |-> FALSE, jumps |-> FALSE, writes |-> FALSE, valid |-> TRUE, reverts |-> FALSE, returns |-> FALSE, constGas |-> GasFastestStep, dynamicGas |-> nil],
     [op |-> "NOT", execute |-> "opNot", validateStack |-> makeStackFunc(1, 1), memorySize |-> nil, halts |-> FALSE, jumps |-> FALSE, writes |-> FALSE, valid |-> TRUE, reverts |-> FALSE, returns |-> FALSE, constGas |-> GasFastestStep, dynamicGas |-> nil],
     [op |-> "BYTE", execute |-> "opByte", validateStack |-> makeStackFunc(2, 1), memorySize |-> nil, halts |-> FALSE, jumps |-> FALSE, writes |-> FALSE, valid |-> TRUE, reverts |-> FALSE, returns |-> FALSE, constGas |-> GasFastestStep, dynamicGas |-> nil],
     [op |-> "SHA3", execute |-> "opSha3", validateStack |-> makeStackFunc(2, 1), memorySize |-> "memorySha3", halts |-> FALSE, jumps |-> FALSE, writes |-> FALSE, valid |-> TRUE, reverts |-> FALSE, returns |-> FALSE, constGas |-> 0, dynamicGas |-> "gasSha3"],
     [op |-> "ADDRESS", execute |-> "opAddress", validateStack |-> makeStackFunc(0, 1), memorySize |-> nil, halts |-> FALSE, jumps |-> FALSE, writes |-> FALSE, valid |-> TRUE, reverts |-> FALSE, returns |-> FALSE, constGas |-> GasQuickStep, dynamicGas |-> nil],
     [op |-> "BALANCE", execute |-> "opBalance", validateStack |-> makeStackFunc(1, 1), memorySize |-> nil, halts |-> FALSE, jumps |-> FALSE, writes |-> FALSE, valid |-> TRUE, reverts |-> FALSE, returns |-> FALSE, constGas |-> 0, dynamicGas |-> "gasBalance"],
     [op |-> "ORIGIN", execute |-> "opOrigin", validateStack |-> makeStackFunc(0, 1), memorySize |-> nil, halts |-> FALSE, jumps |-> FALSE, writes |-> FALSE, valid |-> TRUE, reverts |-> FALSE, returns |-> FALSE, constGas |-> GasQuickStep, dynamicGas |-> nil],
     [op |-> "CALLER", execute |-> "opCaller", validateStack |-> makeStackFunc(0, 1), memorySize |-> nil, halts |-> FALSE, jumps |-> FALSE, writes |-> FALSE, valid |-> TRUE, reverts |-> FALSE, returns |-> FALSE, constGas |-> GasQuickStep, dynamicGas |-> nil],
     [op |-> "CALLVALUE", execute |-> "opCallValue", validateStack |-> makeStackFunc(0, 1), memorySize |-> nil, halts |-> FALSE, jumps |-> FALSE, writes |-> FALSE, valid |-> TRUE, reverts |-> FALSE, returns |-> FALSE, constGas |-> GasQuickStep, dynamicGas |-> nil],
     [op |-> "CALLDATALOAD", execute |-> "opCallDataLoad", validateStack |-> makeStackFunc(1, 1), memorySize |-> nil, halts |-> FALSE, jumps |-> FALSE, writes |-> FALSE, valid |-> TRUE, reverts |-> FALSE, returns |-> FALSE, constGas |-> GasFastestStep, dynamicGas |-> nil],
     [op |-> "CALLDATASIZE", execute |-> "opCallDataSize", validateStack |-> makeStackFunc(0, 1), memorySize |-> nil, halts |-> FALSE, jumps |-> FALSE, writes |-> FALSE, valid |-> TRUE, reverts |-> FALSE, returns |-> FALSE, constGas |-> GasQuickStep, dynamicGas |-> nil],
     [op |-> "CALLDATACOPY", execute |-> "opCallDataCopy", validateStack |-> makeStackFunc(3, 0), memorySize |-> "memoryCallDataCopy", halts |-> FALSE, jumps |-> FALSE, writes |-> FALSE, valid |-> TRUE, reverts |-> FALSE, returns |-> FALSE, constGas |-> 0, dynamicGas |-> "gasCallDataCopy"],
     [op |-> "CODESIZE", execute |-> "opCodeSize", validateStack |-> makeStackFunc(0, 1), memorySize |-> nil, halts |-> FALSE, jumps |-> FALSE, writes |-> FALSE, valid |-> TRUE, reverts |-> FALSE, returns |-> FALSE, constGas |-> GasQuickStep, dynamicGas |-> nil],
     [op |-> "CODECOPY", execute |-> "opCodeCopy", validateStack |-> makeStackFunc(3, 0), memorySize |-> "memoryCodeCopy", halts |-> FALSE, jumps |-> FALSE, writes |-> FALSE, valid |-> TRUE, reverts |-> FALSE, returns |-> FALSE, constGas |-> 0, dynamicGas |-> "gasCodeCopy"],
     [op |-> "GASPRICE", execute |-> "opGasprice", validateStack |-> makeStackFunc(0, 1), memorySize |-> nil, halts |-> FALSE, jumps |-> FALSE, writes |-> FALSE, valid |-> TRUE, reverts |-> FALSE, returns |-> FALSE, constGas |-> GasQuickStep, dynamicGas |-> nil],
     [op |-> "EXTCODESIZE", execute |-> "opExtCodeSize", validateStack |-> makeStackFunc(1, 1), memorySize |-> nil, halts |-> FALSE, jumps |-> FALSE, writes |-> FALSE, valid |-> TRUE, reverts |-> FALSE, returns |-> FALSE, constGas |-> 0, dynamicGas |-> "gasExtCodeSize"],
     [op |-> "EXTCODECOPY", execute |-> "opExtCodeCopy", validateStack |-> makeStackFunc(4, 0), memorySize |-> "memoryExtCodeCopy", halts |-> FALSE, jumps |-> FALSE, writes |-> FALSE, valid |-> TRUE, reverts |-> FALSE, returns |-> FALSE, constGas |-> 0, dynamicGas |-> "gasExtCodeCopy"],
     [op |-> "BLOCKHASH", execute |-> "opBlockhash", validateStack |-> makeStackFunc(1, 1), memorySize |-> nil, halts |-> FALSE, jumps |-> FALSE, writes |-> FALSE, valid |-> TRUE, reverts |-> FALSE, returns |-> FALSE, constGas |-> GasExtStep, dynamicGas |-> nil],
     [op |-> "COINBASE", execute |-> "opCoinbase", validateStack |-> makeStackFunc(0, 1), memorySize |-> nil, halts |-> FALSE, jumps |-> FALSE, writes |-> FALSE, valid |-> TRUE, reverts |-> FALSE, returns |-> FALSE, constGas |-> GasQuickStep, dynamicGas |-> nil],
     [op |-> "TIMESTAMP", execute |-> "opTimestamp", validateStack |-> makeStackFunc(0, 1), memorySize |-> nil, halts |-> FALSE, jumps |-> FALSE, writes |-> FALSE, valid |-> TRUE, reverts |-> FALSE, returns |-> FALSE, constGas |-> GasQuickStep, dynamicGas |-> nil],
     [op |-> "NUMBER", execute |-> "opNumber", validateStack |-> makeStackFunc(0, 1), memorySize |-> nil, halts |-> FALSE, jumps |-> FALSE, writes |-> FALSE, valid |-> TRUE, reverts |-> FALSE, returns |-> FALSE, constGas |-> GasQuickStep, dynamicGas |-> nil],
     [op |-> "DIFFICULTY", execute |-> "opDifficulty", validateStack |-> makeStackFunc(0, 1), memorySize |-> nil, halts |-> FALSE, jumps |-> FALSE, writes |-> FALSE, valid |-> TRUE, reverts |-> FALSE, returns |-> FALSE, constGas |-> GasQuickStep, dynamicGas |-> nil],
     [op |-> "GASLIMIT", execute |-> "opGasLimit", validateStack |-> makeStackFunc(0, 1), memorySize |-> nil, halts |-> FALSE, jumps |-> FALSE, writes |-> FALSE, valid |-> TRUE, reverts |-> FALSE, returns |-> FALSE, constGas |-> GasQuickStep, dynamicGas |-> nil],
     [op |-> "POP", execute |-> "opPop", validateStack |-> makeStackFunc(1, 0), memorySize |-> nil, halts |-> FALSE, jumps |-> FALSE, writes |-> FALSE, valid |-> TRUE, reverts |-> FALSE, returns |-> FALSE, constGas |-> GasQuickStep, dynamicGas |-> nil],
     [op |-> "MLOAD", execute |-> "opMload", validateStack |-> makeStackFunc(1, 1), memorySize |-> "memoryMLoad", halts |-> FALSE, jumps |-> FALSE, writes |-> FALSE, valid |-> TRUE, reverts |-> FALSE, returns |-> FALSE, constGas |-> 0, dynamicGas |-> "gasMLoad"],
     [op |-> "MSTORE", execute |-> "opMstore", validateStack |-> makeStackFunc(2, 0), memorySize |-> "memoryMStore", halts |-> FALSE, jumps |-> FALSE, writes |-> FALSE, valid |-> TRUE, reverts |-> FALSE, returns |-> FALSE, constGas |-> 0, dynamicGas |-> "gasMStore"],
     [op |-> "MSTORE8", execute |-> "opMstore8", validateStack |-> makeStackFunc(2, 0), memorySize |-> "memoryMStore8", halts |-> FALSE, jumps |-> FALSE, writes |-> FALSE, valid |-> TRUE, reverts |-> FALSE, returns |-> FALSE, constGas |-> 0, dynamicGas |-> "gasMStore8"],
     [op |-> "SLOAD", execute |-> "opSload", validateStack |-> makeStackFunc(1, 1), memorySize |-> nil, halts |-> FALSE, jumps |-> FALSE, writes |-> FALSE, valid |-> TRUE, reverts |-> FALSE, returns |-> FALSE, constGas |-> 0, dynamicGas |-> "gasSLoad"],
     [op |-> "SSTORE", execute |-> "opSstore", validateStack |-> makeStackFunc(2, 0), memorySize |-> nil, halts |-> FALSE, jumps |-> FALSE, writes |-> TRUE, valid |-> TRUE, reverts |-> FALSE, returns |-> FALSE, constGas |-> 0, dynamicGas |-> "gasSStore"],
     [op |-> "JUMP", execute |-> "opJump", validateStack |-> makeStackFunc(1, 0), memorySize |-> nil, halts |-> FALSE, jumps |-> TRUE, writes |-> FALSE, valid |-> TRUE, reverts |-> FALSE, returns |-> FALSE, constGas |-> GasMidStep, dynamicGas |-> nil],
     [op |-> "JUMPI", execute |-> "opJumpi", validateStack |-> makeStackFunc(2, 0), memorySize |-> nil, halts |-> FALSE, jumps |-> TRUE, writes |-> FALSE, valid |-> TRUE, reverts |-> FALSE, returns |-> FALSE, constGas |-> GasSlowStep, dynamicGas |-> nil],
     [op |-> "PC", execute |-> "opPc", validateStack |-> makeStackFunc(0, 1), memorySize |-> nil, halts |-> FALSE, jumps |-> FALSE, writes |-> FALSE, valid |-> TRUE, reverts |-> FALSE, returns |-> FALSE, constGas |-> GasQuickStep, dynamicGas |-> nil],
     [op |-> "MSIZE", execute |-> "opMsize", validateStack |-> makeStackFunc(0, 1), memorySize |-> nil, halts |-> FALSE, jumps |-> FALSE, writes |-> FALSE, valid |-> TRUE, reverts |-> FALSE, returns |-> FALSE, constGas |-> GasQuickStep, dynamicGas |-> nil],
     [op |-> "GAS", execute |-> "opGas", validateStack |-> makeStackFunc(0, 1), memorySize |-> nil, halts |-> FALSE, jumps |-> FALSE, writes |-> FALSE, valid |-> TRUE, reverts |-> FALSE, returns |-> FALSE, constGas |-> GasQuickStep, dynamicGas |-> nil],
     [op |-> "JUMPDEST", execute |-> "opJumpdest", validateStack |-> makeStackFunc(0, 0), memorySize |-> nil, halts |-> FALSE, jumps |-> FALSE, writes |-> FALSE, valid |-> TRUE, reverts |-> FALSE, returns |-> FALSE, constGas |-> params.JumpdestGas, dynamicGas |-> nil],
     [op |-> "PUSH1", execute |-> "push1", validateStack |-> makeStackFunc(0, 1), memorySize |-> nil, halts |-> FALSE, jumps |-> FALSE, writes |-> FALSE, valid |-> TRUE, reverts |-> FALSE, returns |-> FALSE, constGas |-> GasFastestStep, dynamicGas |-> nil],
     [op |-> "PUSH2", execute |-> "makePush(2, 2)", validateStack |-> makeStackFunc(0, 1), memorySize |-> nil, halts |-> FALSE, jumps |-> FALSE, writes |-> FALSE, valid |-> TRUE, reverts |-> FALSE, returns |-> FALSE, constGas |-> GasFastestStep, dynamicGas |-> nil],
     [op |-> "PUSH3", execute |-> "makePush(3, 3)", validateStack |-> makeStackFunc(0, 1), memorySize |-> nil, halts |-> FALSE, jumps |-> FALSE, writes |-> FALSE, valid |-> TRUE, reverts |-> FALSE, returns |-> FALSE, constGas |-> GasFastestStep, dynamicGas |-> nil],
     [op |-> "PUSH4", execute |-> "makePush(4, 4)", validateStack |-> makeStackFunc(0, 1), memorySize |-> nil, halts |-> FALSE, jumps |-> FALSE, writes |-> FALSE, valid |-> TRUE, reverts |-> FALSE, returns |-> FALSE, constGas |-> GasFastestStep, dynamicGas |-> nil],
     [op |-> "PUSH5", execute |-> "makePush(5, 5)", validateStack |-> makeStackFunc(0, 1), memorySize |-> nil, halts |-> FALSE, jumps |-> FALSE, writes |-> FALSE, valid |-> TRUE, reverts |-> FALSE, returns |-> FALSE, constGas |-> GasFastestStep, dynamicGas |-> nil],
     [op |-> "PUSH6", execute |-> "makePush(6, 6)", validateStack |-> makeStackFunc(0, 1), memorySize |-> nil, halts |-> FALSE, jumps |-> FALSE, writes |-> FALSE, valid |-> TRUE, reverts |-> FALSE, returns |-> FALSE, constGas |-> GasFastestStep, dynamicGas |-> nil],
     [op |-> "PUSH7", execute |-> "makePush(7, 7)", validateStack |-> makeStackFunc(0, 1), memorySize |-> nil, halts |-> FALSE, jumps |-> FALSE, writes |-> FALSE, valid |-> TRUE, reverts |-> FALSE, returns |-> FALSE, constGas |-> GasFastestStep, dynamicGas |-> nil],
     [op |-> "PUSH8", execute |-> "makePush(8, 8)", validateStack |-> makeStackFunc(0, 1), memorySize |-> nil, halts |-> FALSE, jumps |-> FALSE, writes |-> FALSE, valid |-> TRUE, reverts |-> FALSE, returns |-> FALSE, constGas |-> GasFastestStep, dynamicGas |-> nil],
     [op |-> "PUSH9", execute |-> "makePush(9, 9)", validateStack |-> makeStackFunc(0, 1), memorySize |-> nil, halts |-> FALSE, jumps |-> FALSE, writes |-> FALSE, valid |-> TRUE, reverts |-> FALSE, returns |-> FALSE, constGas |-> GasFastestStep, dynamicGas |-> nil],
     [op |-> "PUSH10", execute |-> "makePush(10, 10)", validateStack |-> makeStackFunc(0, 1), memorySize |-> nil, halts |-> FALSE, jumps |-> FALSE, writes |-> FALSE, valid |-> TRUE, reverts |-> FALSE, returns |-> FALSE, constGas |-> GasFastestStep, dynamicGas |-> nil],
     [op |-> "PUSH11", execute |-> "makePush(11, 11)", validateStack |-> makeStackFunc(0, 1), memorySize |-> nil, halts |-> FALSE, jumps |-> FALSE, writes |-> FALSE, valid |-> TRUE, reverts |-> FALSE, returns |-> FALSE, constGas |-> GasFastestStep, dynamicGas |-> nil],
     [op |-> "PUSH12", execute |-> "makePush(12, 12)", validateStack |-> makeStackFunc(0, 1), memorySize |-> nil, halts |-> FALSE, jumps |-> FALSE, writes |-> FALSE, valid |-> TRUE, reverts |-> FALSE, returns |-> FALSE, constGas |-> GasFastestStep, dynamicGas |-> nil],
     [op |-> "PUSH13", execute |-> "makePush(13, 13)", validateStack |-> makeStackFunc(0, 1), memorySize |-> nil, halts |-> FALSE, jumps |-> FALSE, writes |-> FALSE, valid |-> TRUE, reverts |-> FALSE, returns |-> FALSE, constGas |-> GasFastestStep, dynamicGas |-> nil],
     [op |-> "PUSH14", execute |-> "makePush(14, 14)", validateStack |-> makeStackFunc(0, 1), memorySize |-> nil, halts |-> FALSE, jumps |-> FALSE, writes |-> FALSE, valid |-> TRUE, reverts |-> FALSE, returns |-> FALSE, constGas |-> GasFastestStep, dynamicGas |-> nil],
     [op |-> "PUSH15", execute |-> "makePush(15, 15)", validateStack |-> makeStackFunc(0, 1), memorySize |-> nil, halts |-> FALSE, jumps |-> FALSE, writes |-> FALSE, valid |-> TRUE, reverts |-> FALSE, returns |-> FALSE, constGas |-> GasFastestStep, dynamicGas |-> nil],
     [op |-> "PUSH16", execute |-> "makePush(16, 16)", validateStack |-> makeStackFunc(0, 1), memorySize |-> nil, halts |-> FALSE, jumps |-> FALSE, writes |-> FALSE, valid |-> TRUE, reverts |-> FALSE, returns |-> FALSE, constGas |-> GasFastestStep, dynamicGas |-> nil],
     [op |-> "PUSH17", execute |-> "makePush(17, 17)", validateStack |-> makeStackFunc(0, 1), memorySize |-> nil, halts |-> FALSE, jumps |-> FALSE, writes |-> FALSE, valid |-> TRUE, reverts |-> FALSE, returns |-> FALSE, constGas |-> GasFastestStep, dynamicGas |-> nil],
     [op |-> "PUSH18", execute |-> "makePush(18, 18)", validateStack |-> makeStackFunc(0, 1), memorySize |-> nil, halts |-> FALSE, jumps |-> FALSE, writes |-> FALSE, valid |-> TRUE, reverts |-> FALSE, returns |-> FALSE, constGas |-> GasFastestStep, dynamicGas |-> nil],
     [op |-> "PUSH19", execute |-> "makePush(19, 19)", validateStack |-> makeStackFunc(0, 1), memorySize |-> nil, halts |-> FALSE, jumps |-> FALSE, writes |-> FALSE, valid |-> TRUE, reverts |-> FALSE, returns |-> FALSE, constGas |-> GasFastestStep, dynamicGas |-> nil],
     [op |-> "PUSH20", execute |-> "makePush(20, 20)", validateStack |-> makeStackFunc(0, 1), memorySize |-> nil, halts |-> FALSE, jumps |-> FALSE, writes |-> FALSE, valid |-> TRUE, reverts |-> FALSE, returns |-> FALSE, constGas |-> GasFastestStep, dynamicGas |-> nil],
     [op |-> "PUSH21", execute |-> "makePush(21, 21)", validateStack |-> makeStackFunc(0, 1), memorySize |-> nil, halts |-> FALSE, jumps |-> FALSE, writes |-> FALSE, valid |-> TRUE, reverts |-> FALSE, returns |-> FALSE, constGas |-> GasFastestStep, dynamicGas |-> nil],
     [op |-> "PUSH22", execute |-> "makePush(22, 22)", validateStack |-> makeStackFunc(0, 1), memorySize |-> nil, halts |-> FALSE, jumps |-> FALSE, writes |-> FALSE, valid |-> TRUE, reverts |-> FALSE, returns |-> FALSE, constGas |-> GasFastestStep, dynamicGas |-> nil],
     [op |-> "PUSH23", execute |-> "makePush(23, 23)", validateStack |-> makeStackFunc(0, 1), memorySize |-> nil, halts |-> FALSE, jumps |-> FALSE, writes |-> FALSE, valid |-> TRUE, reverts |-> FALSE, returns |-> FALSE, constGas |-> GasFastestStep, dynamicGas |-> nil],
     [op |-> "PUSH24", execute |-> "makePush(24, 24)", validateStack |-> makeStackFunc(0, 1), memorySize |-> nil, halts |-> FALSE, jumps |-> FALSE, writes |-> FALSE, valid |-> TRUE, reverts |-> FALSE, returns |-> FALSE, constGas |-> GasFastestStep, dynamicGas |-> nil],
     [op |-> "PUSH25", execute |-> "makePush(25, 25)", validateStack |-> makeStackFunc(0, 1), memorySize |-> nil, halts |-> FALSE, jumps |-> FALSE, writes |-> FALSE, valid |-> TRUE, reverts |-> FALSE, returns |-> FALSE, constGas |-> GasFastestStep, dynamicGas |-> nil],
     [op |-> "PUSH26", execute |-> "makePush(26, 26)", validateStack |-> makeStackFunc(0, 1), memorySize |-> nil, halts |-> FALSE, jumps |-> FALSE, writes |-> FALSE, valid |-> TRUE, reverts |-> FALSE, returns |-> FALSE, constGas |-> GasFastestStep, dynamicGas |-> nil],
     [op |-> "PUSH27", execute |-> "makePush(27, 27)", validateStack |-> makeStackFunc(0, 1), memorySize |-> nil, halts |-> FALSE, jumps |-> FALSE, writes |-> FALSE, valid |-> TRUE, reverts |-> FALSE, returns |-> FALSE, constGas |-> GasFastestStep, dynamicGas |-> nil],
     [op |-> "PUSH28", execute |-> "makePush(28, 28)", validateStack |-> makeStackFunc(0, 1), memorySize |-> nil, halts |-> FALSE, jumps |-> FALSE, writes |-> FALSE, valid |-> TRUE, reverts |-> FALSE, returns |-> FALSE, constGas |-> GasFastestStep, dynamicGas |-> nil],
     [op |-> "PUSH29", execute |-> "makePush(29, 29)", validateStack |-> makeStackFunc(0, 1), memorySize |-> nil, halts |-> FALSE, jumps |-> FALSE, writes |-> FALSE, valid |-> TRUE, reverts |-> FALSE, returns |-> FALSE, constGas |-> GasFastestStep, dynamicGas |-> nil],
     [op |-> "PUSH30", execute |-> "makePush(30, 30)", validateStack |-> makeStackFunc(0, 1), memorySize |-> nil, halts |-> FALSE, jumps |-> FALSE, writes |-> FALSE, valid |-> TRUE, reverts |-> FALSE, returns |-> FALSE, constGas |-> GasFastestStep, dynamicGas |-> nil],
     [op |-> "PUSH31", execute |-> "makePush(31, 31)", validateStack |-> makeStackFunc(0, 1), memorySize |-> nil, halts |-> FALSE, jumps |-> FALSE, writes |-> FALSE, valid |-> TRUE, reverts |-> FALSE, returns |-> FALSE, constGas |-> GasFastestStep, dynamicGas |-> nil],
     [op |-> "PUSH32", execute |-> "makePush(32, 32)", validateStack |-> makeStackFunc(0, 1), memorySize |-> nil, halts |-> FALSE, jumps |-> FALSE, writes |-> FALSE, valid |-> TRUE, reverts |-> FALSE, returns |-> FALSE, constGas |-> GasFastestStep, dynamicGas |-> nil],
     [op |-> "DUP1", execute |-> "makeDup(1)", validateStack |-> makeDupStackFunc(1), memorySize |-> nil, halts |-> FALSE, jumps |-> FALSE, writes |-> FALSE, valid |-> TRUE, reverts |-> FALSE, returns |-> FALSE, constGas |-> GasFastestStep, dynamicGas |-> nil],
     [op |-> "DUP2", execute |-> "makeDup(2)", validateStack |-> makeDupStackFunc(2), memorySize |-> nil, halts |-> FALSE, jumps |-> FALSE, writes |-> FALSE, valid |-> TRUE, reverts |-> FALSE, returns |-> FALSE, constGas |-> GasFastestStep, dynamicGas |-> nil],
     [op |-> "DUP3", execute |-> "makeDup(3)", validateStack |-> makeDupStackFunc(3), memorySize |-> nil, halts |-> FALSE, jumps |-> FALSE, writes |-> FALSE, valid |-> TRUE, reverts |-> FALSE, returns |-> FALSE, constGas |-> GasFastestStep, dynamicGas |-> nil],
     [op |-> "DUP4", execute |-> "makeDup(4)", validateStack |-> makeDupStackFunc(4), memorySize |-> nil, halts |-> FALSE, jumps |-> FALSE, writes |-> FALSE, valid |-> TRUE, reverts |-> FALSE, returns |-> FALSE, constGas |-> GasFastestStep, dynamicGas |-> nil],
     [op |-> "DUP5", execute |-> "makeDup(5)", validateStack |-> makeDupStackFunc(5), memorySize |-> nil, halts |-> FALSE, jumps |-> FALSE, writes |-> FALSE, valid |-> TRUE, reverts |-> FALSE, returns |-> FALSE, constGas |-> GasFastestStep, dynamicGas |-> nil],
     [op |-> "DUP6", execute |-> "makeDup(6)", validateStack |-> makeDupStackFunc(6), memorySize |-> nil, halts |-> FALSE, jumps |-> FALSE, writes |-> FALSE, valid |-> TRUE, reverts |-> FALSE, returns |-> FALSE, constGas |-> GasFastestStep, dynamicGas |-> nil],
     [op |-> "DUP7", execute |-> "makeDup(7)", validateStack |-> makeDupStackFunc(7), memorySize |-> nil, halts |-> FALSE, jumps |-> FALSE, writes |-> FALSE, valid |-> TRUE, reverts |-> FALSE, returns |-> FALSE, constGas |-> GasFastestStep, dynamicGas |-> nil],
     [op |-> "DUP8", execute |-> "makeDup(8)", validateStack |-> makeDupStackFunc(8), memorySize |-> nil, halts |-> FALSE, jumps |-> FALSE, writes |-> FALSE, valid |-> TRUE, reverts |-> FALSE, returns |-> FALSE, constGas |-> GasFastestStep, dynamicGas |-> nil],
     [op |-> "DUP9", execute |-> "makeDup(9)", validateStack |-> makeDupStackFunc(9), memorySize |-> nil, halts |-> FALSE, jumps |-> FALSE, writes |-> FALSE, valid |-> TRUE, reverts |-> FALSE, returns |-> FALSE, constGas |-> GasFastestStep, dynamicGas |-> nil],
     [op |-> "DUP10", execute |-> "makeDup(10)", validateStack |-> makeDupStackFunc(10), memorySize |-> nil, halts |-> FALSE, jumps |-> FALSE, writes |-> FALSE, valid |-> TRUE, reverts |-> FALSE, returns |-> FALSE, constGas |-> GasFastestStep, dynamicGas |-> nil],
     [op |-> "DUP11", execute |-> "makeDup(11)", validateStack |-> makeDupStackFunc(11), memorySize |-> nil, halts |-> FALSE, jumps |-> FALSE, writes |-> FALSE, valid |-> TRUE, reverts |-> FALSE, returns |-> FALSE, constGas |-> GasFastestStep, dynamicGas |-> nil],
     [op |-> "DUP12", execute |-> "makeDup(12)", validateStack |-> makeDupStackFunc(12), memorySize |-> nil, halts |-> FALSE, jumps |-> FALSE, writes |-> FALSE, valid |-> TRUE, reverts |-> FALSE, returns |-> FALSE, constGas |-> GasFastestStep, dynamicGas |-> nil],
     [op |-> "DUP13", execute |-> "makeDup(13)", validateStack |-> makeDupStackFunc(13), memorySize |-> nil, halts |-> FALSE, jumps |-> FALSE, writes |-> FALSE, valid |-> TRUE, reverts |-> FALSE, returns |-> FALSE, constGas |-> GasFastestStep, dynamicGas |-> nil],
     [op |-> "DUP14", execute |-> "makeDup(14)", validateStack |-> makeDupStackFunc(14), memorySize |-> nil, halts |-> FALSE, jumps |-> FALSE, writes |-> FALSE, valid |-> TRUE, reverts |-> FALSE, returns |-> FALSE, constGas |-> GasFastestStep, dynamicGas |-> nil],
     [op |-> "DUP15", execute |-> "makeDup(15)", validateStack |-> makeDupStackFunc(15), memorySize |-> nil, halts |-> FALSE, jumps |-> FALSE, writes |-> FALSE, valid |-> TRUE, reverts |-> FALSE, returns |-> FALSE, constGas |-> GasFastestStep, dynamicGas |-> nil],
     [op |-> "DUP16", execute |-> "makeDup(16)", validateStack |-> makeDupStackFunc(16), memorySize |-> nil, halts |-> FALSE, jumps |-> FALSE, writes |-> FALSE, valid |-> TRUE, reverts |-> FALSE, returns |-> FALSE, constGas |-> GasFastestStep, dynamicGas |-> nil],
     [op |-> "SWAP1", execute |-> "makeSwap(1)", validateStack |-> makeSwapStackFunc(2), memorySize |-> nil, halts |-> FALSE, jumps |-> FALSE, writes |-> FALSE, valid |-> TRUE, reverts |-> FALSE, returns |-> FALSE, constGas |-> GasFastestStep, dynamicGas |-> nil],
     [op |-> "SWAP2", execute |-> "makeSwap(2)", validateStack |-> makeSwapStackFunc(3), memorySize |-> nil, halts |-> FALSE, jumps |-> FALSE, writes |-> FALSE, valid |-> TRUE, reverts |-> FALSE, returns |-> FALSE, constGas |-> GasFastestStep, dynamicGas |-> nil],
     [op |-> "SWAP3", execute |-> "makeSwap(3)", validateStack |-> makeSwapStackFunc(4), memorySize |-> nil, halts |-> FALSE, jumps |-> FALSE, writes |-> FALSE, valid |-> TRUE, reverts |-> FALSE, returns |-> FALSE, constGas |-> GasFastestStep, dynamicGas |-> nil],
     [op |-> "SWAP4", execute |-> "makeSwap(4)", validateStack |-> makeSwapStackFunc(5), memorySize |-> nil, halts |-> FALSE, jumps |-> FALSE, writes |-> FALSE, valid |-> TRUE, reverts |-> FALSE, returns |-> FALSE, constGas |-> GasFastestStep, dynamicGas |-> nil],
     [op |-> "SWAP5", execute |-> "makeSwap(5)", validateStack |-> makeSwapStackFunc(6), memorySize |-> nil, halts |-> FALSE, jumps |-> FALSE, writes |-> FALSE, valid |-> TRUE, reverts |-> FALSE, returns |-> FALSE, constGas |-> GasFastestStep, dynamicGas |-> nil],
     [op |-> "SWAP6", execute |-> "makeSwap(6)", validateStack |-> makeSwapStackFunc(7), memorySize |-> nil, halts |-> FALSE, jumps |-> FALSE, writes |-> FALSE, valid |-> TRUE, reverts |-> FALSE, returns |-> FALSE, constGas |-> GasFastestStep, dynamicGas |-> nil],
     [op |-> "SWAP7", execute |-> "makeSwap(7)", validateStack |-> makeSwapStackFunc(8), memorySize |-> nil, halts |-> FALSE, jumps |-> FALSE, writes |-> FALSE, valid |-> TRUE, reverts |-> FALSE, returns |-> FALSE, constGas |-> GasFastestStep, dynamicGas |-> nil],
     [op |-> "SWAP8", execute |-> "makeSwap(8)", validateStack |-> makeSwapStackFunc(9), memorySize |-> nil, halts |-> FALSE, jumps |-> FALSE, writes |-> FALSE, valid |-> TRUE, reverts |-> FALSE, returns |-> FALSE, constGas |-> GasFastestStep, dynamicGas |-> nil],
     [op |-> "SWAP9", execute |-> "makeSwap(9)", validateStack |-> makeSwapStackFunc(10), memorySize |-> nil, halts |-> FALSE, jumps |-> FALSE, writes |-> FALSE, valid |-> TRUE, reverts |-> FALSE, returns |-> FALSE, constGas |-> GasFastestStep, dynamicGas |-> nil],
     [op |-> "SWAP10", execute |-> "makeSwap(10)", validateStack |-> makeSwapStackFunc(11), memorySize |-> nil, halts |-> FALSE, jumps |-> FALSE, writes |-> FALSE, valid |-> TRUE, reverts |-> FALSE, returns |-> FALSE, constGas |-> GasFastestStep, dynamicGas |-> nil],
     [op |-> "SWAP11", execute |-> "makeSwap(11)", validateStack |-> makeSwapStackFunc(12), memorySize |-> nil, halts |-> FALSE, jumps |-> FALSE, writes |-> FALSE, valid |-> TRUE, reverts |-> FALSE, returns |-> FALSE, constGas |-> GasFastestStep, dynamicGas |-> nil],
     [op |-> "SWAP12", execute |-> "makeSwap(12)", validateStack |-> makeSwapStackFunc(13), memorySize |-> nil, halts |-> FALSE, jumps |-> FALSE, writes |-> FALSE, valid |-> TRUE, reverts |-> FALSE, returns |-> FALSE, constGas |-> GasFastestStep, dynamicGas |-> nil],
     [op |-> "SWAP13", execute |-> "makeSwap(13)", validateStack |-> makeSwapStackFunc(14), memorySize |-> nil, halts |-> FALSE, jumps |-> FALSE, writes |-> FALSE, valid |-> TRUE, reverts |-> FALSE, returns |-> FALSE, constGas |-> GasFastestStep, dynamicGas |-> nil],
     [op |-> "SWAP14", execute |-> "makeSwap(14)", validateStack |-> makeSwapStackFunc(15), memorySize |-> nil, halts |-> FALSE, jumps |-> FALSE, writes |-> FALSE, valid |-> TRUE, reverts |-> FALSE, returns |-> FALSE, constGas |-> GasFastestStep, dynamicGas |-> nil],
     [op |-> "SWAP15", execute |-> "makeSwap(15)", validateStack |-> makeSwapStackFunc(16), memorySize |-> nil, halts |-> FALSE, jumps |-> FALSE, writes |-> FALSE, valid |-> TRUE, reverts |-> FALSE, returns |-> FALSE, constGas |-> GasFastestStep, dynamicGas |-> nil],
     [op |-> "SWAP16", execute |-> "makeSwap(16)", validateStack |-> makeSwapStackFunc(17), memorySize |-> nil, halts |-> FALSE, jumps |-> FALSE, writes |-> FALSE, valid |-> TRUE, reverts |-> FALSE, returns |-> FALSE, constGas |-> GasFastestStep, dynamicGas |-> nil],
     [op |-> "LOG0", execute |-> "makeLog(0)", validateStack |-> makeStackFunc(2, 0), memorySize |-> "memoryLog", halts |-> FALSE, jumps |-> FALSE, writes |-> TRUE, valid |-> TRUE, reverts |-> FALSE, returns |-> FALSE, constGas |-> 0, dynamicGas |-> "makeGasLog(0)"],
     [op |-> "LOG1", execute |-> "makeLog(1)", validateStack |-> makeStackFunc(3, 0), memorySize |-> "memoryLog", halts |-> FALSE, jumps |-> FALSE, writes |-> TRUE, valid |-> TRUE, reverts |-> FALSE, returns |-> FALSE, constGas |-> 0, dynamicGas |-> "makeGasLog(1)"],
     [op |-> "LOG2", execute |-> "makeLog(2)", validateStack |-> makeStackFunc(4, 0), memorySize |-> "memoryLog", halts |-> FALSE, jumps |-> FALSE, writes |-> TRUE, valid |-> TRUE, reverts |-> FALSE, returns |-> FALSE, constGas |-> 0, dynamicGas |-> "makeGasLog(2)"],
     [op |-> "LOG3", execute |-> "makeLog(3)", validateStack |-> makeStackFunc(5, 0), memorySize |-> "memoryLog", halts |-> FALSE, jumps |-> FALSE, writes |-> TRUE, valid |-> TRUE, reverts |-> FALSE, returns |-> FALSE, constGas |-> 0, dynamicGas |-> "makeGasLog(3)"],
     [op |-> "LOG4", execute |-> "makeLog(4)", validateStack |-> makeStackFunc(6, 0), memorySize |-> "memoryLog", halts |-> FALSE, jumps |-> FALSE, writes |-> TRUE, valid |-> TRUE, reverts |-> FALSE, returns |-> FALSE, constGas |-> 0, dynamicGas |-> "makeGasLog(4)"],
     [op |-> "CREATE", execute |-> "opCreate", validateStack |-> makeStackFunc(3, 1), memorySize |-> "memoryCreate", halts |-> FALSE, jumps |-> FALSE, writes |-> TRUE, valid |-> TRUE, reverts |-> FALSE, returns |-> TRUE, constGas |-> 0, dynamicGas |-> "gasCreate"],
     [op |-> "CALL", execute |-> "opCall", validateStack |-> makeStackFunc(7, 1), memorySize |-> "memoryCall", halts |-> FALSE, jumps |-> FALSE, writes |-> FALSE, valid |-> TRUE, reverts |-> FALSE, returns |-> TRUE, constGas |-> 0, dynamicGas |-> "gasCall"],
     [op |-> "CALLCODE", execute |-> "opCallCode", validateStack |-> makeStackFunc(7, 1), memorySize |-> "memoryCall", halts |-> FALSE, jumps |-> FALSE, writes |-> FALSE, valid |-> TRUE, reverts |-> FALSE, returns |-> TRUE, constGas |-> 0, dynamicGas |-> "gasCallCode"],
     [op |-> "RETURN", execute |-> "opReturn", validateStack |-> makeStackFunc(2, 0), memorySize |-> "memoryReturn", halts |-> TRUE, jumps |-> FALSE, writes |-> FALSE, valid |-> TRUE, reverts |-> FALSE, returns |-> FALSE, constGas |-> 0, dynamicGas |-> "gasReturn"],
     [op |-> "SELFDESTRUCT", execute |-> "opSuicide", validateStack |-> makeStackFunc(1, 0), memorySize |-> nil, halts |-> TRUE, jumps |-> FALSE, writes |-> TRUE, valid |-> TRUE, reverts |-> FALSE, returns |-> FALSE, constGas |-> 0, dynamicGas |-> "gasSuicide"] >>

\* [256]operation{...}: a slot the literal leaves out holds the zero operation
legacyFrontierInstructionSet ==
  [b \in Bytes |->
     LET S == {i \in 1..Len(LegacyLiteral) :
                 (IF LegacyLiteral[i].op = "SHA3" THEN 32
                  ELSE OpCode[LegacyLiteral[i].op]) = b}
     IN
       IF S = {}
       THEN [execute |-> nil, validateStack |-> <<>>, memorySize |-> nil,
             halts |-> FALSE, jumps |-> FALSE, writes |-> FALSE, valid |-> FALSE,
             reverts |-> FALSE, returns |-> FALSE, constGas |-> 0, dynamicGas |-> nil]
       ELSE [k \in {"execute", "validateStack", "memorySize", "halts", "jumps",
                    "writes", "valid", "reverts", "returns", "constGas",
                    "dynamicGas"} |-> LegacyLiteral[CHOOSE i \in S : TRUE][k]]]

legacyHomesteadInstructionSet ==
  [legacyFrontierInstructionSet EXCEPT
    ![OpCode.DELEGATECALL] =
     [execute |-> "opDelegateCall", validateStack |-> makeStackFunc(6, 1),
      memorySize |-> "memoryDelegateCall", halts |-> FALSE, jumps |-> FALSE, writes |-> FALSE,
      valid |-> TRUE, reverts |-> FALSE, returns |-> TRUE, constGas |-> 0, dynamicGas |-> "gasDelegateCall"]]

\* the layer without REVERT
legacyByzantiumInstructionSet_NoRevert ==
  [legacyHomesteadInstructionSet EXCEPT
    ![OpCode.STATICCALL] =
     [execute |-> "opStaticCall", validateStack |-> makeStackFunc(6, 1),
      memorySize |-> "memoryStaticCall", halts |-> FALSE, jumps |-> FALSE, writes |-> FALSE,
      valid |-> TRUE, reverts |-> FALSE, returns |-> TRUE, constGas |-> 0, dynamicGas |-> "gasStaticCall"],
    ![OpCode.RETURNDATASIZE] =
     [execute |-> "opReturnDataSize", validateStack |-> makeStackFunc(0, 1),
      memorySize |-> nil, halts |-> FALSE, jumps |-> FALSE, writes |-> FALSE,
      valid |-> TRUE, reverts |-> FALSE, returns |-> FALSE, constGas |-> GasQuickStep, dynamicGas |-> nil],
    ![OpCode.RETURNDATACOPY] =
     [execute |-> "opReturnDataCopy", validateStack |-> makeStackFunc(3, 0),
      memorySize |-> "memoryReturnDataCopy", halts |-> FALSE, jumps |-> FALSE, writes |-> FALSE,
      valid |-> TRUE, reverts |-> FALSE, returns |-> FALSE, constGas |-> 0, dynamicGas |-> "gasReturnDataCopy"]]

legacyByzantiumInstructionSet ==
  [legacyHomesteadInstructionSet EXCEPT
    ![OpCode.STATICCALL] =
     [execute |-> "opStaticCall", validateStack |-> makeStackFunc(6, 1),
      memorySize |-> "memoryStaticCall", halts |-> FALSE, jumps |-> FALSE, writes |-> FALSE,
      valid |-> TRUE, reverts |-> FALSE, returns |-> TRUE, constGas |-> 0, dynamicGas |-> "gasStaticCall"],
    ![OpCode.RETURNDATASIZE] =
     [execute |-> "opReturnDataSize", validateStack |-> makeStackFunc(0, 1),
      memorySize |-> nil, halts |-> FALSE, jumps |-> FALSE, writes |-> FALSE,
      valid |-> TRUE, reverts |-> FALSE, returns |-> FALSE, constGas |-> GasQuickStep, dynamicGas |-> nil],
    ![OpCode.RETURNDATACOPY] =
     [execute |-> "opReturnDataCopy", validateStack |-> makeStackFunc(3, 0),
      memorySize |-> "memoryReturnDataCopy", halts |-> FALSE, jumps |-> FALSE, writes |-> FALSE,
      valid |-> TRUE, reverts |-> FALSE, returns |-> FALSE, constGas |-> 0, dynamicGas |-> "gasReturnDataCopy"],
    ![OpCode.REVERT] =
     [execute |-> "opRevert", validateStack |-> makeStackFunc(2, 0),
      memorySize |-> "memoryRevert", halts |-> FALSE, jumps |-> FALSE, writes |-> FALSE,
      valid |-> TRUE, reverts |-> TRUE, returns |-> TRUE, constGas |-> 0, dynamicGas |-> "gasRevert"]]

legacyConstantinopleInstructionSet ==
  [legacyByzantiumInstructionSet EXCEPT
    ![OpCode.SHL] =
     [execute |-> "opSHL", validateStack |-> makeStackFunc(2, 1),
      memorySize |-> nil, halts |-> FALSE, jumps |-> FALSE, writes |-> FALSE,
      valid |-> TRUE, reverts |-> FALSE, returns |-> FALSE, constGas |-> GasFastestStep, dynamicGas |-> nil],
    ![OpCode.SHR] =
     [execute |-> "opSHR", validateStack |-> makeStackFunc(2, 1),
      memorySize |-> nil, halts |-> FALSE, jumps |-> FALSE, writes |-> FALSE,
      valid |-> TRUE, reverts |-> FALSE, returns |-> FALSE, constGas |-> GasFastestStep, dynamicGas |-> nil],
    ![OpCode.SAR] =
     [execute |-> "opSAR", validateStack |-> makeStackFunc(2, 1),
      memorySize |-> nil, halts |-> FALSE, jumps |-> FALSE, writes |-> FALSE,
      valid |-> TRUE, reverts |-> FALSE, returns |-> FALSE, constGas |-> GasFastestStep, dynamicGas |-> nil],
    ![OpCode.EXTCODEHASH] =
     [execute |-> "opExtCodeHash", validateStack |-> makeStackFunc(1, 1),
      memorySize |-> nil, halts |-> FALSE, jumps |-> FALSE, writes |-> FALSE,
      valid |-> TRUE, reverts |-> FALSE, returns |-> FALSE, constGas |-> 0, dynamicGas |-> "gasExtCodeHash"],
    ![OpCode.CREATE2] =
     [execute |-> "opCreate2", validateStack |-> makeStackFunc(4, 1),
      memorySize |-> "memoryCreate2", halts |-> FALSE, jumps |-> FALSE, writes |-> TRUE,
      valid |-> TRUE, reverts |-> FALSE, returns |-> TRUE, constGas |-> 0, dynamicGas |-> "gasCreate2"]]

\* no CALL step and no LinkAndDeploy call under way; a subscription just
\* made, with nothing on its channels
InitAux ==
  /\ gRem = 0
  /\ gReq = 0
  /\ gFwd = 0
  /\ callPhase = "idle"
  /\ dParams = DeploymentParams(<<>>, <<>>, <<>>)
  /\ dRes = NilResult
  /\ dErr = nil
  /\ dCalls = <<>>
  /\ dPhase = "idle"
  /\ logs = <<>>
  /\ sub = [pending |-> nil, closed |-> FALSE, unsubscribed |-> FALSE,
            produced |-> <<>>]
  /\ iter = [event |-> nil, done |-> FALSE, fail |-> nil]
  /\ itObs = [rets |-> <<>>, values |-> <<>>, errs |-> <<>>, recv |-> 0]
  /\ watch = [pc |-> "select", ev |-> nil, result |-> nil, recv |-> <<>>]
  /\ sink = <<>>
  /\ quit = FALSE
  /\ snap = [buf |-> <<>>, dst |-> <<>>, w |-> <<>>, written |-> <<>>,
             flushed |-> <<>>, arg |-> <<>>, last |-> "new"]
  /\ ovr = [s |-> [inner |-> innerState, overrides |-> [a |-> <<>>, b |-> <<>>],
                   elems |-> "value"],
            calls |-> 0, last |-> "none", ret |-> 0, before |-> 0,
            args |-> [addr |-> "a", key |-> "k1", value |-> 0], saved |-> <<>>]
  /\ ctr = [floatBits |-> 0, pc |-> [g \in 1..NumGoroutines |-> "idle"],
            v |-> [g \in 1..NumGoroutines |-> 0],
            loadedBits |-> [g \in 1..NumGoroutines |-> 0]]

----------------------------------------------------------------------------
(* Specifications.                                                          *)

InitFrame ==
  /\ fork = "Frontier"
  /\ code = <<>>
  /\ pc = 0
  /\ stack = <<>>
  /\ gas = 0
  /\ memLen = 0
  /\ status = "idle"
  /\ lastOp = -1
  /\ prevGas = 0

Init ==
  /\ heap = <<>>
  /\ pkg = <<>>
  /\ initIdx = 1
  /\ panicked = FALSE
  /\ InitFrame
  /\ vHeap = <<>>
  /\ vIn = <<>>
  /\ vOut = [called |-> FALSE]
  /\ InitAux

Spec == Init /\ [][InitTable \/ Call \/ Step \/ Finish]_vars

SpecTables == Init /\ [][InitTable \/ CallShort \/ Step \/ Finish]_vars

InitValidate ==
  /\ heap = <<>>
  /\ pkg = <<>>
  /\ initIdx = 1
  /\ panicked = FALSE
  /\ InitFrame
  /\ \E choice \in [PerturbedSlots -> Replacements] :
       /\ vHeap = PerturbedTable(choice).h
       /\ vIn = PerturbedTable(choice).jt
  /\ vOut = [called |-> FALSE]
  /\ InitAux

SpecValidate == InitValidate /\ [][Validate \/ InitTable]_vars

SpecCallGas == Init /\ [][gasCall \/ callReturn]_vars

SpecDeploy == Init /\ [][LinkAndDeployCall \/ DropResult]_vars

SpecIterator == Init /\ [][SendLog \/ SubEnd \/ NextCall]_vars

SpecWatch == Init /\ [][SendLog \/ SubEnd \/ Quit \/ WatchSelect \/ WatchSend]_vars

SpecSnap == Init /\ [][Write \/ WriteTo \/ WriteDirectTo]_vars

SpecCounter == Init /\ [][Inc \/ Dec \/ Load \/ CompareAndSwap]_vars

SpecOverride ==
  Init /\ [][NewOverrideState \/ Snapshot \/ RevertToSnapshot \/ SubBalance
              \/ AddBalance \/ SetNonce \/ SetCode \/ SetState]_vars

----------------------------------------------------------------------------
(* Properties of the fork tables.                                           *)

Range(t) == {t[b] : b \in Bytes}

\* C1: each of the nine fork tables exists once its initialiser has run, and
\* every one of its 256 slots holds a record whose execute function is set.
C1_TableComplete ==
  \A f \in ForkNames :
    Attempted(f) =>
      /\ Built(f)
      /\ \A b \in Bytes : pkg[f][b] # 0 /\ Op(f, b).execute # nil

C1_Witness ==
  /\ InitDone
  /\ \A f \in ForkNames : Built(f)
  /\ Op("Frontier", OpCode.STOP).execute = "opStop"
  /\ Op("London", 12).execute = "opUndefined"
  /\ Op("London", OpCode.BASEFEE).execute = "opBaseFee"

\* C2: in every fork table a record with a memorySize function also has a
\* dynamicGas function, in all 256 slots.
C2_MemoryGasCoupling ==
  \A f \in ForkNames :
    Attempted(f) =>
      /\ Built(f)
      /\ \A b \in Bytes : Op(f, b).memorySize # nil => Op(f, b).dynamicGas # nil

C2_Witness ==
  /\ InitDone
  /\ Op("Constantinople", OpCode.CREATE2).memorySize = "memoryCreate2"
  /\ Op("Constantinople", OpCode.CREATE2).dynamicGas = "gasCreate2"
  /\ Op("Byzantium", OpCode.REVERT).memorySize = "memoryRevert"
  /\ Op("Byzantium", OpCode.REVERT).dynamicGas = "gasRevert"

\* C3 as stated: every record of every fork table has
\* 0 <= minStack <= maxStack <= 1024.
C3_ThresholdsWithinLimit ==
  \A f \in DOMAIN pkg : \A b \in Bytes :
    /\ 0 <= Op(f, b).minStack
    /\ Op(f, b).minStack <= Op(f, b).maxStack
    /\ Op(f, b).maxStack <= StackLimit

\* C3 amended: every record has minStack = p and maxStack = 1024 - q + p for the
\* (p pops, q pushes) of its execute function, so 0 <= minStack <= maxStack <=
\* 1030, and maxStack <= 1024 exactly for the records with p <= q.
C3_ThresholdsFromArity ==
  \A f \in DOMAIN pkg : \A b \in Bytes :
    LET r == Op(f, b)
        p == ExecArity(r.execute)[1]
        q == ExecArity(r.execute)[2]
    IN  /\ r.minStack = p
        /\ r.maxStack = StackLimit - q + p
        /\ 0 <= r.minStack
        /\ r.minStack <= r.maxStack
        /\ r.maxStack <= StackLimit + 6
        /\ (r.maxStack <= StackLimit <=> p <= q)

C3_Witness ==
  /\ InitDone
  /\ Op("Frontier", OpCode.ADD).maxStack = StackLimit + 1
  /\ Op("London", OpCode.CALL).maxStack = StackLimit + 6
  /\ Op("London", OpCode.DUP1).maxStack = StackLimit - 1
  /\ Op("London", OpCode.SWAP1).minStack = 2
  /\ Op("London", 12).maxStack = StackLimit

\* C4: validate panics exactly on a table with a nil slot or with a record that
\* has memorySize and no dynamicGas, and otherwise returns the table as it is;
\* every package-level table has passed validate.
C4_ValidateVerdict ==
  /\ vOut.called =>
       /\ vOut.panic <=>
            \E b \in Bytes :
              \/ vIn[b] = 0
              \/ /\ vIn[b] # 0
                 /\ vHeap[vIn[b]].memorySize # nil
                 /\ vHeap[vIn[b]].dynamicGas = nil
       /\ ~vOut.panic => vOut.jt = vIn
  /\ \A f \in ForkNames :
       Attempted(f) => Built(f) /\ ~validate(heap, pkg[f]).panic

C4_Witness ==
  /\ vOut.called
  /\ vOut.panic
  /\ \A b \in Bytes : vIn[b] # 0
  /\ \E b \in PerturbedSlots :
       vHeap[vIn[b]].memorySize = "memoryReturn" /\ vHeap[vIn[b]].dynamicGas = nil
  /\ InitDone

\* C6: an opcode byte defined in one fork's table is defined in the table of
\* every later fork.
C6_MonotoneAddition ==
  \A f \in DOMAIN pkg : \A g \in DOMAIN pkg :
    ForkIndex(f) < ForkIndex(g) =>
      \A b \in Bytes : Defined(f, b) => Defined(g, b)

C6_Witness ==
  /\ InitDone
  /\ ~Defined("Frontier", OpCode.DELEGATECALL)
  /\ Defined("Homestead", OpCode.DELEGATECALL)
  /\ Defined("London", OpCode.DELEGATECALL)

\* the opcodes the Homestead, Byzantium and Constantinople layers introduce
Introduced ==
  {<<OpCode.DELEGATECALL, "Homestead">>,
   <<OpCode.STATICCALL, "Byzantium">>, <<OpCode.RETURNDATASIZE, "Byzantium">>,
   <<OpCode.RETURNDATACOPY, "Byzantium">>, <<OpCode.REVERT, "Byzantium">>,
   <<OpCode.SHL, "Constantinople">>, <<OpCode.SHR, "Constantinople">>,
   <<OpCode.SAR, "Constantinople">>, <<OpCode.EXTCODEHASH, "Constantinople">>,
   <<OpCode.CREATE2, "Constantinople">>}

\* C7: an opcode a fork introduces is undefined in every earlier table and
\* defined from that fork on; PUSH1 1, PUSH1 2, SHL, STOP ends with
\* InvalidOpcode up to Byzantium and with stack-top 4 from Constantinople on.
C7_IntroducedOpcodes ==
  /\ \A f \in DOMAIN pkg : \A x \in Introduced :
       Defined(f, x[1]) <=> ForkIndex(f) >= ForkIndex(x[2])
  /\ (code = ShlProgram(1, 2) /\ status \notin {"idle", "running", "ErrOutOfGas"}) =>
       IF ForkIndex(fork) < ForkIndex("Constantinople")
       THEN status = "ErrInvalidOpcode" /\ lastOp = OpCode.SHL
       ELSE status = "stopped" /\ stack = << <<4>> >>

C7_Witness ==
  /\ code = ShlProgram(1, 2)
  /\ fork = "Constantinople"
  /\ status = "stopped"
  /\ stack = << <<4>> >>
  /\ ~Defined("Byzantium", OpCode.SHL)

\* C8: no operation record is referenced from two fork tables, and the tables
\* before Tangerine Whistle keep the Frontier constantGas of the repriced
\* opcodes, the tables before Spurious Dragon the Frontier dynamicGas of EXP.
C8_TablesIndependent ==
  /\ \A f \in DOMAIN pkg : \A g \in DOMAIN pkg :
       f # g => Range(pkg[f]) \cap Range(pkg[g]) = {}
  /\ \A f \in DOMAIN pkg \cap {"Frontier", "Homestead"} :
       /\ Op(f, OpCode.BALANCE).constantGas = params.BalanceGasFrontier
       /\ Op(f, OpCode.EXTCODESIZE).constantGas = params.ExtcodeSizeGasFrontier
       /\ Op(f, OpCode.SLOAD).constantGas = params.SloadGasFrontier
       /\ Op(f, OpCode.EXTCODECOPY).constantGas = params.ExtcodeCopyBaseFrontier
       /\ Op(f, OpCode.CALL).constantGas = params.CallGasFrontier
       /\ Op(f, OpCode.CALLCODE).constantGas = params.CallGasFrontier
       /\ f = "Homestead" =>
            Op(f, OpCode.DELEGATECALL).constantGas = params.CallGasFrontier
  /\ \A f \in DOMAIN pkg \cap {"Frontier", "Homestead", "TangerineWhistle"} :
       Op(f, OpCode.EXP).dynamicGas = "gasExpFrontier"

C8_Witness ==
  /\ InitDone
  /\ Op("Homestead", OpCode.BALANCE).constantGas = params.BalanceGasFrontier
  /\ Op("TangerineWhistle", OpCode.BALANCE).constantGas = params.BalanceGasEIP150
  /\ Op("TangerineWhistle", OpCode.EXP).dynamicGas = "gasExpFrontier"
  /\ Op("SpuriousDragon", OpCode.EXP).dynamicGas = "gasExpEIP158"
  /\ Op("London", OpCode.SLOAD).dynamicGas = "gasSLoadEIP2929"

----------------------------------------------------------------------------
(* Properties of the dispatch step.                                         *)

\* the stack and memory-size checks of a step on record r pass in the frame
ChecksPass(r, ms) ==
  /\ Len(stack) >= r.minStack
  /\ Len(stack) <= r.maxStack
  /\ ~(r.memorySize # nil /\ ms.overflow)

\* C5: a step on a byte the fork does not assign ends with InvalidOpcode at
\* every stack depth and with every amount of gas: its record has minStack 0,
\* maxStack 1024, constantGas 0, no dynamicGas and no memorySize.
C5_UndefinedIsInvalidOpcode ==
  /\ status = "running" =>
       \A b \in Bytes \ Assigned(fork) :
         LET r == Op(fork, b)
         IN  /\ r.minStack = 0 /\ r.maxStack = StackLimit /\ r.constantGas = 0
             /\ r.dynamicGas = nil /\ r.memorySize = nil
             /\ \A ms \in MemorySizeResults(r), dg \in DynamicGasResults(r) :
                  Dispatch(r, Frame, ms, dg).status = "ErrInvalidOpcode"
  /\ (lastOp # -1 /\ lastOp \notin Assigned(fork)) => status = "ErrInvalidOpcode"

C5_Witness ==
  /\ status = "ErrInvalidOpcode"
  /\ lastOp = 12
  /\ code = <<OpCode.PUSH1, 7, 12>>
  /\ Len(stack) = 1
  /\ gas = 0
  /\ fork = "London"

\* C9: for every defined opcode with p pops and q pushes the two threshold
\* checks pass exactly when depth >= p and depth - p + q <= 1024; a frame
\* started on an empty stack keeps its depth within 0..1024 and no execute
\* function pops more than the stack holds.
C9_StackWithinBounds ==
  /\ status = "running" =>
       \A b \in Bytes :
         Defined(fork, b) =>
           LET r == Op(fork, b)
               p == ExecArity(r.execute)[1]
               q == ExecArity(r.execute)[2]
               d == Len(stack)
           IN  (d >= r.minStack /\ d <= r.maxStack)
                 <=> (d >= p /\ d - p + q <= StackLimit)
  /\ Len(stack) <= StackLimit
  /\ status # "panic: stack index out of range"

C9_Witness ==
  /\ status = "ErrStackUnderflow"
  /\ lastOp = OpCode.ADD
  /\ code = <<OpCode.PUSH1, 1, OpCode.ADD>>
  /\ Len(stack) = 1
  /\ Op(fork, OpCode.ADD).minStack = 2

\* C10 as stated: no step increases the available gas, and an execution whose
\* available gas has reached zero ends with OutOfGas.
C10_ZeroGasIsOutOfGas ==
  /\ lastOp # -1 => gas <= prevGas
  /\ (status \notin {"idle", "running"} /\ gas = 0) => status = "ErrOutOfGas"

\* C10 amended: no step increases the available gas; a step ends with OutOfGas
\* only when its constant or dynamic cost exceeds the gas left, never on STOP,
\* whose cost is zero; with zero gas left a step of positive constant cost that
\* passes its checks ends with OutOfGas and a STOP step ends the frame normally.
C10_GasNeverIncreases ==
  /\ lastOp # -1 => 0 <= gas /\ gas <= prevGas
  /\ status = "ErrOutOfGas" =>
       LET r == Op(fork, lastOp)
       IN  /\ lastOp # OpCode.STOP
           /\ \/ prevGas < r.constantGas
              \/ /\ r.dynamicGas # nil
                 /\ gas = prevGas - r.constantGas
                 /\ \E dg \in DynamicGasResults(r) : dg.err = nil /\ gas < dg.cost
  /\ (status = "running" /\ gas = 0) =>
       /\ \A b \in Bytes :
            LET r == Op(fork, b)
            IN  \A ms \in MemorySizeResults(r), dg \in DynamicGasResults(r) :
                  (r.constantGas > 0 /\ ChecksPass(r, ms)) =>
                    Dispatch(r, Frame, ms, dg).status = "ErrOutOfGas"
       /\ Dispatch(Op(fork, OpCode.STOP), Frame,
                   [size |-> 0, overflow |-> FALSE], [cost |-> 0, err |-> nil]).status
            = "stopped"

C10_Witness ==
  /\ code = AddProgram(1, 1)
  /\ status = "stopped"
  /\ lastOp = OpCode.STOP
  /\ gas = 0
  /\ stack = << <<2>> >>

\* a number as a word: base-256 digits, least significant first
RECURSIVE WordOfNat(_)
WordOfNat(n) == IF n = 0 THEN <<>> ELSE <<n % 256>> \o WordOfNat(n \div 256)

\* C11: PUSH1 a, PUSH1 b, ADD, STOP started on an empty stack with 1 000 000
\* gas ends at STOP without error on every fork table, with a + b on top of the
\* stack (a + b < 2^256 for two bytes) and 9 gas used; 5 and 3 leave 8.
C11_AddProgramResult ==
  /\ (Len(code) = 6 /\ code = AddProgram(code[2], code[4])
        /\ status \notin {"idle", "running"}) =>
       /\ status = "stopped"
       /\ lastOp = OpCode.STOP
       /\ stack # <<>>
       /\ Top(stack, 1) = WordOfNat(code[2] + code[4])
       /\ gas = BigGas - 9
  /\ (code = AddProgram(5, 3) /\ status = "stopped") => Top(stack, 1) = <<8>>

C11_Witness ==
  /\ code = AddProgram(5, 3)
  /\ fork = "London"
  /\ status = "stopped"
  /\ stack = << <<8>> >>
  /\ gas = BigGas - 9

\* C12: a step checks the stack thresholds before anything is charged; a step
\* that ends with StackUnderflow, StackOverflow, GasUintOverflow or OutOfGas
\* leaves the stack, the memory length and the program counter as they were,
\* and one that fails a stack check leaves the gas as it was; execute is
\* reached only with the thresholds passed and the constant and dynamic gas
\* deducted from gas that stays non-negative, after memory was grown to words.
C12_FailedStepLeavesFrame ==
  [][status = "running" =>
       LET rec == Op(fork, GetOp(code, pc))
           CheckErrors == {"ErrStackUnderflow", "ErrStackOverflow",
                           "ErrGasUintOverflow", "ErrOutOfGas"}
       IN  /\ status' = "ErrStackUnderflow" <=> Len(stack) < rec.minStack
           /\ status' = "ErrStackOverflow" <=>
                 (Len(stack) >= rec.minStack /\ Len(stack) > rec.maxStack)
           /\ status' \in CheckErrors =>
                 stack' = stack /\ memLen' = memLen /\ pc' = pc
           /\ status' \in {"ErrStackUnderflow", "ErrStackOverflow"} => gas' = gas
           /\ gas' >= 0
           /\ status' \notin CheckErrors =>
                 /\ Len(stack) >= rec.minStack /\ Len(stack) <= rec.maxStack
                 /\ gas >= rec.constantGas
                 /\ gas' <= gas - rec.constantGas
                 /\ rec.dynamicGas = nil => gas' = gas - rec.constantGas
                 /\ memLen' >= memLen /\ memLen' % 32 = 0
  ]_vars

C12_Witness ==
  /\ status = "ErrGasUintOverflow"
  /\ lastOp = OpCode.RETURN
  /\ code = <<OpCode.JUMPDEST, OpCode.PUSH1, 0, OpCode.PUSH1, 0, OpCode.RETURN>>
  /\ pc = 5
  /\ Len(stack) = 2
  /\ memLen = 0
  /\ fork = "London"

\* C13 as stated: the forwarded gas is min(g_req, g_rem - floor(g_rem / 64)),
\* which is min(g_req, floor(63 * g_rem / 64)) for every g_rem, and it never
\* exceeds g_rem.
C13_ForwardedIsFloor ==
  callPhase = "forwarded" =>
    /\ gFwd = Min(gReq, gRem - gRem \div 64)
    /\ gFwd = Min(gReq, (63 * gRem) \div 64)
    /\ gFwd <= gRem

\* C13 amended: the forwarded gas is min(g_req, g_rem - floor(g_rem / 64)) and
\* never exceeds g_rem; it is min(g_req, floor(63 * g_rem / 64)) when g_rem is
\* a multiple of 64 or g_req is at most floor(63 * g_rem / 64), and one more
\* than floor(63 * g_rem / 64) otherwise.
C13_ForwardedGas ==
  callPhase = "forwarded" =>
    /\ gFwd = Min(gReq, gRem - gRem \div 64)
    /\ gFwd <= gRem
    /\ IF gRem % 64 = 0 \/ gReq <= (63 * gRem) \div 64
       THEN gFwd = Min(gReq, (63 * gRem) \div 64)
       ELSE gFwd = (63 * gRem) \div 64 + 1

C13_Witness ==
  /\ callPhase = "forwarded"
  /\ gRem = 65
  /\ gReq = 65
  /\ gFwd = 64
  /\ (63 * gRem) \div 64 = 63

----------------------------------------------------------------------------
(* Properties of LinkAndDeploy.                                             *)

\* the patterns of the Contracts and Libraries of the latest call
ListedPatterns ==
  [Contracts |-> {dParams.Contracts[i].Meta.Pattern : i \in DOMAIN dParams.Contracts},
   Libraries |-> {dParams.Libraries[i].Pattern : i \in DOMAIN dParams.Libraries}]

C15_OverridesLinked ==
  dPhase = "returned" =>
    /\ \A p \in DOMAIN dParams.Overrides :
         /\ \A k \in DOMAIN dCalls : dCalls[k].pattern # p
         /\ \A k \in DOMAIN dCalls :
              (\E i \in DOMAIN Matches(dCalls[k].unlinkedCode) :
                 Matches(dCalls[k].unlinkedCode)[i] = p) =>
                /\ \E i \in DOMAIN dCalls[k].deployer :
                     dCalls[k].deployer[i] = AddrHex(dParams.Overrides[p])
                /\ \A i \in DOMAIN dCalls[k].deployer : dCalls[k].deployer[i] # p
    /\ (ListedPatterns.Libraries \subseteq DOMAIN dParams.Overrides
          /\ Len(dParams.Contracts) = 1 /\ dErr = nil) =>
         DOMAIN dRes.Addrs = ListedPatterns.Contracts

\* C16 as stated: a call that returns no error has deployed every entry of
\* Contracts and every entry of Libraries whose pattern is not in Overrides,
\* and Addrs holds exactly those patterns: 4 for the libraries alone, 5 for
\* C1 with its libraries.
C16_DeploysContractsAndLibraries ==
  (dPhase = "returned" /\ dErr = nil) =>
    /\ DOMAIN dRes.Addrs =
         (ListedPatterns.Contracts \cup ListedPatterns.Libraries) \ DOMAIN dParams.Overrides
    /\ \A p \in (ListedPatterns.Contracts \cup ListedPatterns.Libraries) \ DOMAIN dParams.Overrides :
         \E k \in DOMAIN dCalls : dCalls[k].pattern = p /\ dCalls[k].err = nil
    /\ (dParams = DeploymentParams(<<>>, C1LibraryDeps, <<>>)) =>
         Cardinality(DOMAIN dRes.Addrs) = 4
    /\ (dParams = DeploymentParams(
                    <<ContractDeployParams(nested_libraries.C1, constructorInput)>>,
                    C1LibraryDeps, <<>>)) =>
         Cardinality(DOMAIN dRes.Addrs) = 5

\* C17 as stated: the deploy callback is invoked for an entry of Contracts
\* with that entry's Input, and for a library with empty input.
C17_ContractInputPassed ==
  dPhase = "returned" =>
    \A k \in DOMAIN dCalls :
      IF dCalls[k].pattern \in ListedPatterns.Contracts
      THEN \A i \in DOMAIN dParams.Contracts :
             dParams.Contracts[i].Meta.Pattern = dCalls[k].pattern =>
               dCalls[k].input = dParams.Contracts[i].Input
      ELSE dCalls[k].input = <<>>

----------------------------------------------------------------------------
(* Properties of EventIterator and WatchEvents.                             *)

\* C18: a call of Next in which unpack returns an error e, or the error
\* channel delivers a non-nil e, returns false and leaves Error() = e; a call
\* made with Error() set returns false, receives no log, takes nothing from
\* either channel and leaves the iterator, so Value() and Error(), as it was.
C18_FailureIsFinal ==
  [][Len(itObs'.rets) = Len(itObs.rets) + 1 =>
       /\ Len(itObs'.errs) > Len(itObs.errs) =>
            /\ itObs'.rets[Len(itObs'.rets)] = FALSE
            /\ iter'.fail = itObs'.errs[Len(itObs'.errs)]
       /\ iter.fail # nil =>
            /\ itObs'.rets[Len(itObs'.rets)] = FALSE
            /\ iter' = iter
            /\ logs' = logs
            /\ sub' = sub
            /\ itObs'.recv = itObs.recv
            /\ itObs'.errs = itObs.errs
  ]_vars

C18_Witness ==
  /\ iter.fail = "unpack error 2"
  /\ iter.event = unpack([n |-> 1, ok |-> TRUE]).ev
  /\ itObs.rets = <<TRUE, FALSE, FALSE>>
  /\ itObs.recv = 2
  /\ Len(logs) = 1

\* C19: when every log the subscription produced unpacks and the error
\* channel has delivered and holds no error, Next has returned true once per
\* log taken, in channel order, with Value() that log's event; no log is lost;
\* and Next returns false only with every log delivered and the subscription
\* complete, and from then on only false.
C19_EachLogOnce ==
  ((\A i \in DOMAIN sub.produced : sub.produced[i].ok)
     /\ sub.pending = nil /\ itObs.errs = <<>>) =>
    /\ Len(itObs.values) <= Len(sub.produced)
    /\ \A i \in DOMAIN itObs.values :
         itObs.values[i] = unpack(sub.produced[i]).ev
    /\ Len(itObs.values) + Len(logs) = Len(sub.produced)
    /\ itObs.recv = Len(itObs.values)
    /\ \A i \in DOMAIN itObs.rets : itObs.rets[i] = (i <= Len(itObs.values))
    /\ Len(itObs.rets) > Len(itObs.values) =>
         /\ Len(itObs.values) = Len(sub.produced)
         /\ sub.closed
         /\ iter.done
    /\ (itObs.rets # <<>> /\ itObs.rets[Len(itObs.rets)]) =>
         iter.event = itObs.values[Len(itObs.values)]

C19_Witness ==
  /\ Len(sub.produced) = 2
  /\ \A i \in DOMAIN sub.produced : sub.produced[i].ok
  /\ itObs.rets = <<TRUE, TRUE, FALSE, FALSE>>
  /\ itObs.values = <<unpack(sub.produced[1]).ev, unpack(sub.produced[2]).ev>>
  /\ iter.done
  /\ iter.fail = nil

\* C20: the loop of WatchEvents takes logs in arrival order and sends each
\* log's event to sink before it takes the next; a log that does not unpack
\* ends the loop with unpack's error, with the events of the logs before it
\* sent and nothing sent for it or after it; and however the loop has ended,
\* the underlying subscription is unsubscribed.
C20_ForwardsInOrder ==
  /\ Len(watch.recv) <= Len(sub.produced)
  /\ \A i \in DOMAIN watch.recv : watch.recv[i] = sub.produced[i]
  /\ Len(sink) <= Len(watch.recv)
  /\ Len(watch.recv) - Len(sink) <= 1
  /\ \A i \in DOMAIN sink : sink[i] = unpack(watch.recv[i]).ev
  /\ watch.pc = "select" => Len(sink) = Len(watch.recv)
  /\ watch.pc = "send" =>
       /\ Len(sink) = Len(watch.recv) - 1
       /\ watch.ev = unpack(watch.recv[Len(watch.recv)]).ev
  /\ \A i \in DOMAIN watch.recv :
       ~watch.recv[i].ok =>
         /\ i = Len(watch.recv)
         /\ watch.pc = "ended"
         /\ watch.result = unpack(watch.recv[i]).err
         /\ Len(sink) = i - 1
  /\ watch.pc = "ended" => sub.unsubscribed

C20_Witness ==
  /\ watch.pc = "ended"
  /\ watch.result = "unpack error 2"
  /\ Len(sink) = 1
  /\ Len(logs) = 1
  /\ sub.unsubscribed

----------------------------------------------------------------------------
(* The repricing layers.                                                    *)

\* C22: the Tangerine Whistle table differs from the Homestead table in the
\* constantGas of BALANCE, EXTCODESIZE, SLOAD, EXTCODECOPY, CALL, CALLCODE and
\* DELEGATECALL and in nothing else, and the Spurious Dragon table differs
\* from the Tangerine Whistle table in the dynamicGas of EXP and in nothing
\* else: every other slot holds an equal record, and a patched slot's record
\* is equal in every other field.
C22_RepricingOnly ==
  /\ ({"Homestead", "TangerineWhistle"} \subseteq DOMAIN pkg) =>
       \A b \in Bytes :
         IF b \in {OpCode.BALANCE, OpCode.EXTCODESIZE, OpCode.SLOAD,
                   OpCode.EXTCODECOPY, OpCode.CALL, OpCode.CALLCODE,
                   OpCode.DELEGATECALL}
         THEN /\ Op("TangerineWhistle", b).constantGas # Op("Homestead", b).constantGas
              /\ [Op("TangerineWhistle", b) EXCEPT
                    !.constantGas = Op("Homestead", b).constantGas]
                   = Op("Homestead", b)
         ELSE Op("TangerineWhistle", b) = Op("Homestead", b)
  /\ ({"TangerineWhistle", "SpuriousDragon"} \subseteq DOMAIN pkg) =>
       \A b \in Bytes :
         IF b = OpCode.EXP
         THEN /\ Op("SpuriousDragon", b).dynamicGas # Op("TangerineWhistle", b).dynamicGas
              /\ [Op("SpuriousDragon", b) EXCEPT
                    !.dynamicGas = Op("TangerineWhistle", b).dynamicGas]
                   = Op("TangerineWhistle", b)
         ELSE Op("SpuriousDragon", b) = Op("TangerineWhistle", b)

C22_Witness ==
  /\ {"Homestead", "TangerineWhistle", "SpuriousDragon"} \subseteq DOMAIN pkg
  /\ Op("Homestead", OpCode.DELEGATECALL).constantGas = params.CallGasFrontier
  /\ Op("TangerineWhistle", OpCode.DELEGATECALL).constantGas = params.CallGasEIP150
  /\ Op("TangerineWhistle", OpCode.EXP).dynamicGas = "gasExpFrontier"
  /\ Op("SpuriousDragon", OpCode.EXP).dynamicGas = "gasExpEIP158"
  /\ Op("SpuriousDragon", OpCode.EXP).constantGas
       = Op("TangerineWhistle", OpCode.EXP).constantGas

----------------------------------------------------------------------------
(* Order and number of the deploy callback's invocations.                   *)

\* C27 as stated: deploy is invoked for a node only after it was invoked for
\* each dependency of the node that is not overridden, and only if each of
\* those invocations succeeded.
C27_DependenciesFirstAndDeployed ==
  dPhase = "returned" =>
    \A k \in DOMAIN dCalls :
      \A i \in DOMAIN Matches(dCalls[k].unlinkedCode) :
        Matches(dCalls[k].unlinkedCode)[i] \notin DOMAIN dParams.Overrides =>
          /\ \E j \in 1..(k - 1) :
               dCalls[j].pattern = Matches(dCalls[k].unlinkedCode)[i]
          /\ \A j \in 1..(k - 1) :
               dCalls[j].pattern = Matches(dCalls[k].unlinkedCode)[i] =>
                 dCalls[j].err = nil

\* C28 as stated: during one LinkAndDeploy call the deploy callback is
\* invoked at most once per pattern.
C28_OncePerPattern ==
  dPhase = "returned" =>
    \A j \in DOMAIN dCalls : \A k \in DOMAIN dCalls :
      j # k => dCalls[j].pattern # dCalls[k].pattern

\* C21: every WriteTo hands its writer the snappy encoding of exactly the
\* bytes passed to Write since the previous WriteTo (or since creation) and
\* leaves the buffer empty; WriteDirectTo hands over the encoding of its
\* argument alone and leaves the pending bytes as they were: at all times the
\* buffer holds the bytes written since the latest WriteTo.
C21_FlushExactlyPending ==
  /\ snap.buf = snap.written
  /\ snap.dst = <<>>
  /\ snap.last = "WriteTo" =>
       /\ snap.w = Encode(<<>>, snap.flushed)
       /\ snap.buf = <<>>
  /\ snap.last = "WriteDirectTo" => snap.w = Encode(<<>>, snap.arg)

C21_Witness ==
  /\ snap.last = "WriteDirectTo"
  /\ snap.arg # <<>>
  /\ Len(snap.written) = 2
  /\ Len(snap.flushed) = 3

\* C23: storage reads follow the override's precedence: with State set the
\* value comes from State alone, the zero hash for a slot it does not hold;
\* with only StateDiff set, from StateDiff for the slots it holds and from the
\* inner database for the others; with no override entry, from the inner
\* database.  After SetState(addr, key, v), GetState(addr, key) is v and
\* SetState returned what GetState gave just before.
C23_StoragePrecedence ==
  ovr.last # "none" =>
    /\ \A addr \in Addrs, key \in Keys :
         \E e \in {ovr.s.overrides[addr]}, got \in {GetState(ovr.s, addr, key)},
            below \in {ovr.s.inner.acct[addr].storage[key]} :
           /\ e = <<>> => got = below
           /\ (e # <<>> /\ e[1].State # <<>>) =>
                got = (IF e[1].State[1][key] = -1 THEN 0 ELSE e[1].State[1][key])
           /\ (e # <<>> /\ e[1].State = <<>> /\ e[1].StateDiff # <<>>) =>
                got = (IF e[1].StateDiff[1][key] = -1 THEN below
                       ELSE e[1].StateDiff[1][key])
           /\ (e # <<>> /\ e[1].State = <<>> /\ e[1].StateDiff = <<>>) =>
                got = below
    /\ ovr.last = "SetState" =>
         /\ GetState(ovr.s, ovr.args.addr, ovr.args.key) = ovr.args.value
         /\ ovr.ret = ovr.before

C23_Witness ==
  /\ ovr.last = "SetState"
  /\ ovr.calls = 2
  /\ ovr.s.overrides[ovr.args.addr] # <<>>
  /\ ovr.s.overrides[ovr.args.addr][1].State # <<>>
  /\ ovr.before = 0
  /\ ovr.s.inner.acct[ovr.args.addr].storage[ovr.args.key] = 8

\* C25: for every address the code size is the length of the code GetCode
\* returns, also when the address's override sets Code.
C25_CodeSizeIsLen ==
  ovr.last # "none" =>
    \A addr \in Addrs : GetCodeSize(ovr.s, addr) = Len(GetCode(ovr.s, addr))

\* C26: after RevertToSnapshot(id) with the id the latest Snapshot returned,
\* GetBalance, GetNonce, GetCode and GetState give for every address and slot
\* what they gave when the snapshot was taken, override entry or not.
C26_RevertRestores ==
  ovr.last = "RevertToSnapshot" =>
    \A addr \in Addrs :
      /\ GetBalance(ovr.s, addr) = GetBalance(ovr.saved[1], addr)
      /\ GetNonce(ovr.s, addr) = GetNonce(ovr.saved[1], addr)
      /\ GetCode(ovr.s, addr) = GetCode(ovr.saved[1], addr)
      /\ \A key \in Keys :
           GetState(ovr.s, addr, key) = GetState(ovr.saved[1], addr, key)

RECURSIVE SumReturned(_)
SumReturned(n) ==
  IF n = 0 THEN 0
  ELSE SumReturned(n - 1) + (IF ctr.pc[n] = "returned" THEN ctr.v[n] ELSE 0)

\* C29: with goroutines calling Inc and Dec concurrently, the counter's value
\* is at all times the value it started with (zero) plus the deltas of the
\* calls that have returned, each counted once: no update is lost to an
\* interleaved load and compare-and-swap, a call returns with the step in
\* which its own compare-and-swap succeeds, and when all calls have returned
\* Snapshot().Count() is the sum of all deltas.
C29_EveryDeltaOnce ==
  Float64frombits(ctr.floatBits) = SumReturned(NumGoroutines)

\* a call about to fail its compare-and-swap: the others returned after it loaded
C29_Witness ==
  \E g \in 1..NumGoroutines :
    /\ ctr.pc[g] = "cas"
    /\ ctr.loadedBits[g] # ctr.floatBits
    /\ ctr.v[g] < 0
    /\ \A h \in (1..NumGoroutines) \ {g} : ctr.pc[h] = "returned" /\ ctr.v[h] > 0

\* C30: for Frontier, Homestead, Byzantium and Constantinople the legacy
\* table and the newer table agree slot by slot: a slot is valid in the
\* legacy table exactly when the newer table holds a record other than the
\* undefined one for it, and for such a slot both give the same (pops,
\* pushes) arity and both have, or both lack, a memorySize function.
C30_LayoutsAgree ==
  \A f \in {"Frontier", "Homestead", "Byzantium", "Constantinople"} :
    Built(f) =>
      \E legacy \in {CASE f = "Frontier" -> legacyFrontierInstructionSet
                       [] f = "Homestead" -> legacyHomesteadInstructionSet
                       [] f = "Byzantium" -> legacyByzantiumInstructionSet
                       [] OTHER -> legacyConstantinopleInstructionSet} :
        \A b \in Bytes :
          /\ legacy[b].valid <=> Defined(f, b)
          /\ legacy[b].valid =>
               /\ Op(f, b).minStack = legacy[b].validateStack[1]
               /\ Op(f, b).maxStack =
                    StackLimit + legacy[b].validateStack[1] - legacy[b].validateStack[2]
               /\ (legacy[b].memorySize = nil) <=> (Op(f, b).memorySize = nil)

C30_Witness ==
  /\ Built("Constantinople")
  /\ legacyConstantinopleInstructionSet[OpCode.CREATE2].valid
  /\ legacyConstantinopleInstructionSet[OpCode.CREATE2].memorySize # nil
  /\ Defined("Constantinople", OpCode.REVERT)
  /\ ~legacyFrontierInstructionSet[OpCode.REVERT].valid

====
